---------------------------- MODULE Spec2Model ----------------------------
(***************************************************************************)
(* Temporal reconciliation of BAG catalog snapshots and resolution of      *)
(* indication segments to codes.                                            *)
(*                                                                          *)
(* Part I models build_sku_indication_db.py: the versioned upserts, the    *)
(* XML ingestion, resolve_dates and the preparation -> SKU fan-out.        *)
(* Part II models the segment resolution pipeline of                       *)
(* extract_limitations.py (retroactive segment mapping, annotation with    *)
(* existing codes, similarity cascade).                                    *)
(*                                                                          *)
(* Conventions.  A text is a tuple of atoms (characters or words); Python  *)
(* None, SQL NULL and the empty string are the empty tuple, which is how   *)
(* get_text() reports a missing or empty element.  A code "11111.01" is    *)
(* the tuple <<"11111", ".", "01">>.  md5 is taken to be collision free,   *)
(* so a content hash is the string that is hashed.                         *)
(***************************************************************************)
EXTENDS Integers, Sequences, FiniteSets, TLC

VARIABLES
    sku,              \* table sku
    limitation_text,  \* table limitation_text
    prep_code_link,   \* table _prep_code_link
    sku_indication,   \* table sku_indication
    prep_map,         \* _prep_map: position of a SwissmedicNo5 = preparation_id
    extract_id,       \* number of XML files ingested so far
    pc,               \* position in main()
    op,               \* the operation that produced this state
    last_doc,         \* the XML document ingested last
    observed,         \* every (de, fr, it) text triple handed to upsert_limitation_text
    pack,             \* table pack of extract_limitations.py
    limitation,       \* table limitation
    indication_code,  \* table indication_code
    ic_seq,           \* highest indication_code_id handed out (AUTOINCREMENT)
    limitation_code_link,  \* table limitation_code_link
    name_map,         \* table indication_name_code_map, in rowid order
    limitation_indication_segment,  \* table limitation_indication_segment
    todo,             \* rows fetched by a running loop that are still to be processed
    unmatched,        \* the rows `unmatched` of similarity_segment_mapping
    matched_ids,      \* matched_ids of similarity_segment_mapping
    match_log,        \* match_log of similarity_segment_mapping
    similarity_match_log,  \* table _similarity_match_log
    text_segment,     \* table text_segment of build_sku_indication_db.py
    indication_code_name,  \* table indication_code_name
    existing_map,     \* existing_map of build_code_name_mapping, layer 5
    map_unmatched,    \* unmatched of build_code_name_mapping, layer 5
    llm_pc,           \* position in run_pipeline of llm_segment_texts.py
    semaphore,        \* free permits of the asyncio.Semaphore
    stats,            \* stats of run_pipeline
    llm_task,         \* position, attempt and wait of each process_one_text task
    llm_text,         \* the llm_* columns of limitation_text and the rows of text_segment_llm
    llm_trace         \* per text: the API calls made and the save functions entered

vars == <<sku, limitation_text, prep_code_link, sku_indication, prep_map,
          extract_id, pc, op, last_doc, observed,
          pack, limitation, indication_code, ic_seq, limitation_code_link, name_map,
          limitation_indication_segment, todo, unmatched, matched_ids,
          match_log, similarity_match_log, text_segment, indication_code_name,
          existing_map, map_unmatched,
          llm_pc, semaphore, stats, llm_task, llm_text, llm_trace>>

varsB == <<sku, limitation_text, prep_code_link, sku_indication, prep_map,
           extract_id, last_doc, observed>>

varsR == <<limitation, indication_code, ic_seq, limitation_code_link, name_map,
           limitation_indication_segment, todo, unmatched, matched_ids>>

varsE == <<pack, varsR>>

varsLog == <<match_log, similarity_match_log>>

varsMap == <<text_segment, indication_code_name, existing_map, map_unmatched>>

varsLLM == <<llm_pc, semaphore, stats, llm_task, llm_text, llm_trace>>

-----------------------------------------------------------------------------
(* Bounds *)

MaxExtract == 3      \* XML files of a run

MaxFiles == 2        \* XML files of a run of extract_limitations.py

NumTexts == 2        \* texts get_target_texts hands to run_pipeline

Concurrency == 1     \* --concurrency

MAX_RETRIES == 3

RETRY_BASE_DELAY == 2

TextIds == 1..NumTexts

-----------------------------------------------------------------------------
(* Values *)

Null == <<>>

Truthy(x) == x # Null

Max(a, b) == IF a >= b THEN a ELSE b

Min(a, b) == IF a <= b THEN a ELSE b

\* the \d{5} and \d{2} digit runs that occur in the model
Digit5Atoms == {"11111", "22222"}

Digit2Atoms == {"01", "02"}

D1 == <<"11111">>

D2 == <<"22222">>

\* f"{dossier}.{part}"
Code(d, i) == d \o <<".">> \o i

\* extract_map: extract_id -> ReleaseDate of the file (build_extract_info);
\* files are discovered in chronological order.
ReleaseDateOf(i) == 20230001 + 100 * i

extract_map_get(i) == IF i >= 1 THEN ReleaseDateOf(i) ELSE 0

-----------------------------------------------------------------------------
(* XML utility functions *)

\* str.lower() on the atoms that occur in the texts and names of the model.
Lower(t) ==
    CASE t = "Indikationscode" -> "indikationscode"
      [] t = "Codice" -> "codice"
      [] t = "Code" -> "code"
      [] t = "Psoriasis" -> "psoriasis"
      [] t = "Arthritis" -> "arthritis"
      [] t = "Kombination" -> "kombination"
      [] t = "REVLIMID" -> "revlimid"
      [] t = "LENALIDOMID" -> "lenalidomid"
      [] t = "Lenalidomid" -> "lenalidomid"
      [] t = "Spirig" -> "spirig"
      [] t = "Dexamethason" -> "dexamethason"
      [] t = "Myelom" -> "myelom"
      [] t = "Plaque" -> "plaque"
      [] t = "UND" -> "und"
      [] OTHER -> t

LowerStr(s) == [i \in 1..Len(s) |-> Lower(s[i])]

IsSpace(t) == t \in {" ", "\n"}

IsDigit5(t) == t \in Digit5Atoms

IsDigit2(t) == t \in Digit2Atoms

\* compute_hash: md5 over "de|fr|it", None as ''.
compute_hash(desc_de, desc_fr, desc_it) ==
    desc_de \o <<"|">> \o desc_fr \o <<"|">> \o desc_it

\* The codes of a list of <IndicationsCode Code=...> / <PmIndication Code=...>
\* elements: stripped, empty ones skipped.
CodesOf(elems) == {elems[i] : i \in {j \in 1..Len(elems) : Truthy(elems[j])}}

extract_codes_structured(lim_elem) ==
    IF CodesOf(lim_elem.IndicationsCodes) # {}
    THEN CodesOf(lim_elem.IndicationsCodes)
    ELSE CodesOf(lim_elem.PmIndications)

\* The keywords that open a TEXT_PATTERNS expression (case-insensitive); each is
\* followed by [^:]{0,n}, a colon, optional white space and the code.
PatternHeads == {<<"indikationscode">>, <<"codice">>, <<"code", " ", "correspondant">>}

HeadAt(text, i, head) ==
    /\ i + Len(head) - 1 <= Len(text)
    /\ \A k \in 1..Len(head) : Lower(text[i + k - 1]) = head[k]

\* A code d5 "." d2 starts at position c, reached from a pattern head through
\* non-colon atoms, one colon and white space.
CodeAfterHead(text, c) ==
    /\ c + 2 <= Len(text)
    /\ IsDigit5(text[c]) /\ text[c + 1] = "." /\ IsDigit2(text[c + 2])
    /\ \E head \in PatternHeads : \E i \in 1..Len(text) : \E j \in 1..Len(text) :
          /\ HeadAt(text, i, head)
          /\ i + Len(head) <= j /\ j < c
          /\ text[j] = ":"
          /\ \A k \in (i + Len(head))..(j - 1) : text[k] # ":"
          /\ \A k \in (j + 1)..(c - 1) : IsSpace(text[k])

TextCodes(text) ==
    {<<text[c], text[c + 1], text[c + 2]>> : c \in {k \in 1..Len(text) : CodeAfterHead(text, k)}}

extract_codes_from_text(desc_de, desc_fr, desc_it) ==
    TextCodes(desc_de) \cup TextCodes(desc_fr) \cup TextCodes(desc_it)

-----------------------------------------------------------------------------
(* Phase 1: the versioned upserts *)

\* get_preparation_id: the id of a SwissmedicNo5 is its position in _prep_map.
PrepIdIn(pm, no5) == CHOOSE i \in 1..Len(pm) : pm[i] = no5

get_preparation_id_map(pm, no5) ==
    IF \E i \in 1..Len(pm) : pm[i] = no5 THEN pm ELSE Append(pm, no5)

(* Faulty variants of the upserts: each differs from the code in one assignment *)

\* an UPDATE that writes the sequence number to first_seen_extract
upsert_sku_rewrites_first_seen(tbl, eid, gtin, swissmedic_no5, bag_dossier_no, preparation_id, public_price) ==
    IF \E r \in tbl : r.gtin = gtin
    THEN {IF r.gtin = gtin THEN [r EXCEPT !.first_seen_extract = eid] ELSE r : r \in tbl}
    ELSE tbl \cup {[gtin |-> gtin, swissmedic_no5 |-> swissmedic_no5,
                    bag_dossier_no |-> bag_dossier_no,
                    preparation_id |-> preparation_id,
                    public_price |-> public_price,
                    valid_from |-> 0, valid_to |-> 0,
                    first_seen_extract |-> eid, last_seen_extract |-> eid]}

\* no SELECT before the INSERT: every call adds a row
upsert_limitation_text_always_inserts(tbl, eid, content_hash, lim_type, desc_de, desc_fr, desc_it) ==
    tbl \cup {[text_id |-> Cardinality(tbl) + 1,
               content_hash |-> content_hash,
               limitation_type |-> lim_type,
               description_de |-> desc_de,
               description_fr |-> desc_fr,
               description_it |-> desc_it,
               valid_from |-> 0, valid_to |-> 0,
               first_seen_extract |-> eid, last_seen_extract |-> eid]}

\* an UPDATE that writes the previous sequence number
upsert_limitation_text_off_by_one(tbl, eid, content_hash, lim_type, desc_de, desc_fr, desc_it) ==
    IF \E r \in tbl : r.content_hash = content_hash
    THEN {IF r.content_hash = content_hash
          THEN [r EXCEPT !.last_seen_extract = eid - 1]
          ELSE r : r \in tbl}
    ELSE tbl \cup {[text_id |-> Cardinality(tbl) + 1,
                    content_hash |-> content_hash,
                    limitation_type |-> lim_type,
                    description_de |-> desc_de,
                    description_fr |-> desc_fr,
                    description_it |-> desc_it,
                    valid_from |-> 0, valid_to |-> 0,
                    first_seen_extract |-> eid, last_seen_extract |-> eid]}

\* an UPDATE that counts the sightings instead of recording the sequence number
upsert_prep_code_link_counts(tbl, eid, preparation_id, text_id, code, code_source, level, is_fallback) ==
    IF \E r \in tbl : r.preparation_id = preparation_id /\ r.text_id = text_id
                      /\ r.indication_code = code
    THEN {IF r.preparation_id = preparation_id /\ r.text_id = text_id
             /\ r.indication_code = code
          THEN [r EXCEPT !.last_seen_extract = @ + 1]
          ELSE r : r \in tbl}
    ELSE tbl \cup {[preparation_id |-> preparation_id, text_id |-> text_id,
                    indication_code |-> code, code_source |-> code_source,
                    limitation_level |-> level, is_fallback |-> is_fallback,
                    first_seen_extract |-> eid, last_seen_extract |-> eid]}

\* an UPDATE of pack that also rewrites first_seen_extract
upsert_pack_rewrites_first_seen(tbl, eid, preparation_id, gtin, bag_dossier_no, public_price) ==
    IF \E r \in tbl : r.gtin = gtin
    THEN {IF r.gtin = gtin
          THEN [r EXCEPT !.first_seen_extract = eid, !.last_seen_extract = eid]
          ELSE r : r \in tbl}
    ELSE tbl \cup {[pack_id_db |-> Cardinality(tbl) + 1,
                    preparation_id |-> preparation_id, gtin |-> gtin,
                    bag_dossier_no |-> bag_dossier_no, public_price |-> public_price,
                    first_seen_extract |-> eid, last_seen_extract |-> eid]}

(* The upserts of the code *)

upsert_sku(tbl, eid, gtin, swissmedic_no5, bag_dossier_no, preparation_id, public_price) ==
    IF \E r \in tbl : r.gtin = gtin
    THEN {IF r.gtin = gtin
          THEN [r EXCEPT !.last_seen_extract = eid,
                         !.public_price = IF Truthy(public_price) THEN public_price ELSE @]
          ELSE r : r \in tbl}
    ELSE tbl \cup {[gtin |-> gtin, swissmedic_no5 |-> swissmedic_no5,
                    bag_dossier_no |-> bag_dossier_no,
                    preparation_id |-> preparation_id,
                    public_price |-> public_price,
                    valid_from |-> 0, valid_to |-> 0,
                    first_seen_extract |-> eid, last_seen_extract |-> eid]}

upsert_limitation_text(tbl, eid, content_hash, lim_type, desc_de, desc_fr, desc_it) ==
    IF \E r \in tbl : r.content_hash = content_hash
    THEN {IF r.content_hash = content_hash
          THEN [r EXCEPT !.last_seen_extract = eid]
          ELSE r : r \in tbl}
    ELSE tbl \cup {[text_id |-> Cardinality(tbl) + 1,
                    content_hash |-> content_hash,
                    limitation_type |-> lim_type,
                    description_de |-> desc_de,
                    description_fr |-> desc_fr,
                    description_it |-> desc_it,
                    valid_from |-> 0, valid_to |-> 0,
                    first_seen_extract |-> eid, last_seen_extract |-> eid]}

\* the text_id upsert_limitation_text returns
TextIdOf(tbl, content_hash) == (CHOOSE r \in tbl : r.content_hash = content_hash).text_id

upsert_prep_code_link(tbl, eid, preparation_id, text_id, code, code_source, level, is_fallback) ==
    IF \E r \in tbl : r.preparation_id = preparation_id /\ r.text_id = text_id
                      /\ r.indication_code = code
    THEN {IF r.preparation_id = preparation_id /\ r.text_id = text_id
             /\ r.indication_code = code
          THEN [r EXCEPT !.last_seen_extract = eid]
          ELSE r : r \in tbl}
    ELSE tbl \cup {[preparation_id |-> preparation_id, text_id |-> text_id,
                    indication_code |-> code, code_source |-> code_source,
                    limitation_level |-> level, is_fallback |-> is_fallback,
                    first_seen_extract |-> eid, last_seen_extract |-> eid]}

\* upsert_pack of extract_limitations.py
upsert_pack(tbl, eid, preparation_id, gtin, bag_dossier_no, public_price) ==
    IF ~Truthy(gtin) THEN tbl
    ELSE IF \E r \in tbl : r.gtin = gtin
    THEN {IF r.gtin = gtin
          THEN [r EXCEPT !.last_seen_extract = eid,
                         !.bag_dossier_no = bag_dossier_no,
                         !.public_price = public_price]
          ELSE r : r \in tbl}
    ELSE tbl \cup {[pack_id_db |-> Cardinality(tbl) + 1,
                    preparation_id |-> preparation_id, gtin |-> gtin,
                    bag_dossier_no |-> bag_dossier_no, public_price |-> public_price,
                    first_seen_extract |-> eid, last_seen_extract |-> eid]}

-----------------------------------------------------------------------------
(* Phase 1: XML ingestion *)

\* The tables process_preparation writes, threaded through the element loops.
DB(s, t, l, m) == [sku |-> s, limitation_text |-> t, prep_code_link |-> l, prep_map |-> m]

RECURSIVE UpsertCodes(_, _, _, _, _, _, _, _)
\* for code_value in codes: upsert_prep_code_link(...)
UpsertCodes(tbl, eid, preparation_id, text_id, codes, code_source, level, is_fallback) ==
    IF codes = {} THEN tbl
    ELSE LET code_value == CHOOSE c \in codes : TRUE
         IN UpsertCodes(upsert_prep_code_link(tbl, eid, preparation_id, text_id,
                                              code_value, code_source, level, is_fallback),
                        eid, preparation_id, text_id, codes \ {code_value},
                        code_source, level, is_fallback)

\* a faulty variant: the codes of the prose are linked beside the structured ones
process_limitation_merges_layers(db, eid, preparation_id, lim_elem, level, bag_dossier_no) ==
    LET desc_de == lim_elem.DescriptionDe
        desc_fr == lim_elem.DescriptionFr
        desc_it == lim_elem.DescriptionIt
        c_hash == compute_hash(desc_de, desc_fr, desc_it)
        texts == upsert_limitation_text(db.limitation_text, eid, c_hash,
                                        lim_elem.LimitationType, desc_de, desc_fr, desc_it)
        merged == extract_codes_structured(lim_elem)
                      \cup extract_codes_from_text(desc_de, desc_fr, desc_it)
        use_fallback == merged = {} /\ lim_elem.LimitationType = "DIA"
                        /\ Truthy(bag_dossier_no)
        codes == IF use_fallback THEN {Code(bag_dossier_no, <<"XX">>)} ELSE merged
        source == IF use_fallback THEN "FALLBACK_XX"
                  ELSE IF extract_codes_structured(lim_elem) # {} THEN "STRUCTURED_XML"
                  ELSE "TEXT_PARSED"
    IN IF level = "ITCODE" THEN db
       ELSE [db EXCEPT !.limitation_text = texts,
                       !.prep_code_link =
                           UpsertCodes(db.prep_code_link, eid, preparation_id,
                                       TextIdOf(texts, c_hash), codes, source, level,
                                       IF use_fallback THEN 1 ELSE 0)]

process_limitation(db, eid, preparation_id, lim_elem, level, bag_dossier_no) ==
    IF level = "ITCODE" THEN db
    ELSE
    LET desc_de == lim_elem.DescriptionDe
        desc_fr == lim_elem.DescriptionFr
        desc_it == lim_elem.DescriptionIt
        c_hash == compute_hash(desc_de, desc_fr, desc_it)
        texts == upsert_limitation_text(db.limitation_text, eid, c_hash,
                                        lim_elem.LimitationType, desc_de, desc_fr, desc_it)
        text_id == TextIdOf(texts, c_hash)
        structured == extract_codes_structured(lim_elem)
        parsed == IF structured = {} THEN extract_codes_from_text(desc_de, desc_fr, desc_it)
                  ELSE {}
        use_fallback == structured = {} /\ parsed = {}
                        /\ lim_elem.LimitationType = "DIA" /\ Truthy(bag_dossier_no)
        codes == IF structured # {} THEN structured
                 ELSE IF parsed # {} THEN parsed
                 ELSE IF use_fallback THEN {Code(bag_dossier_no, <<"XX">>)}
                 ELSE {}
        source == IF structured # {} THEN "STRUCTURED_XML"
                  ELSE IF use_fallback THEN "FALLBACK_XX"
                  ELSE "TEXT_PARSED"
        is_fallback == IF source = "FALLBACK_XX" THEN 1 ELSE 0
    IN [db EXCEPT !.limitation_text = texts,
                  !.prep_code_link = UpsertCodes(db.prep_code_link, eid, preparation_id,
                                                 text_id, codes, source, level, is_fallback)]

RECURSIVE process_limitations(_, _, _, _, _, _)
\* for lim_elem in lims.findall("Limitation"): process_limitation(...)
process_limitations(db, eid, preparation_id, lims, level, bag_dossier_no) ==
    IF lims = <<>> THEN db
    ELSE process_limitations(
             process_limitation(db, eid, preparation_id, Head(lims), level, bag_dossier_no),
             eid, preparation_id, Tail(lims), level, bag_dossier_no)

RECURSIVE process_packs(_, _, _, _, _)
\* for pack_elem in prep_elem.findall(".//Packs/Pack"): ...
process_packs(db, eid, swissmedic_no5, preparation_id, packs) ==
    IF packs = <<>> THEN db
    ELSE LET pack_elem == Head(packs)
         IN IF ~Truthy(pack_elem.GTIN)
            THEN process_packs(db, eid, swissmedic_no5, preparation_id, Tail(packs))
            ELSE LET db1 == [db EXCEPT !.sku =
                                upsert_sku(db.sku, eid, pack_elem.GTIN, swissmedic_no5,
                                           pack_elem.BagDossierNo, preparation_id,
                                           pack_elem.PublicPrice)]
                     db2 == process_limitations(db1, eid, preparation_id,
                                                pack_elem.Limitations, "PACK",
                                                pack_elem.BagDossierNo)
                 IN process_packs(db2, eid, swissmedic_no5, preparation_id, Tail(packs))

\* all_bag_dossier_nos[0] if all_bag_dossier_nos else None
FallbackBag(packs) ==
    LET with == {i \in 1..Len(packs) : Truthy(packs[i].GTIN) /\ Truthy(packs[i].BagDossierNo)}
    IN IF with = {} THEN Null
       ELSE packs[CHOOSE i \in with : \A j \in with : i <= j].BagDossierNo

process_preparation(db, eid, prep_elem) ==
    IF ~Truthy(prep_elem.SwissmedicNo5) THEN db
    ELSE LET pm == get_preparation_id_map(db.prep_map, prep_elem.SwissmedicNo5)
             preparation_id == PrepIdIn(pm, prep_elem.SwissmedicNo5)
             db1 == process_packs([db EXCEPT !.prep_map = pm], eid,
                                  prep_elem.SwissmedicNo5, preparation_id, prep_elem.Packs)
         IN process_limitations(db1, eid, preparation_id, prep_elem.Limitations,
                                "PREPARATION", FallbackBag(prep_elem.Packs))

RECURSIVE parse_file(_, _, _)
\* one XML file: process_preparation on every <Preparation> element, then commit
parse_file(db, eid, doc) ==
    IF doc = <<>> THEN db
    ELSE parse_file(process_preparation(db, eid, Head(doc)), eid, Tail(doc))

-----------------------------------------------------------------------------
(* Phase 2: resolve dates, fan-out preparation -> SKU *)

resolve_dates(tbl) ==
    {[r EXCEPT !.valid_from = extract_map_get(r.first_seen_extract),
               !.valid_to = extract_map_get(r.last_seen_extract)] : r \in tbl}

HasDot(code) == \E i \in 1..Len(code) : code[i] = "."

\* code.split(".")[0] if "." in code else code
CodeDossier(code) ==
    IF HasDot(code)
    THEN SubSeq(code, 1, (CHOOSE i \in 1..Len(code) :
                             code[i] = "." /\ \A j \in 1..(i - 1) : code[j] # ".") - 1)
    ELSE code

(* Faulty variants of the fan-out *)

\* an overlap test that misses the pack that appears after the association ended
Overlaps_one_sided(s, link) ==
    ~(s.last_seen_extract < link.first_seen_extract)

\* a link valid over the hull of the two intervals instead of their intersection
FanoutRow_hull(s, link) ==
    [gtin |-> s.gtin, indication_code |-> link.indication_code,
     text_id |-> link.text_id, code_source |-> link.code_source,
     limitation_level |-> link.limitation_level, is_fallback |-> link.is_fallback,
     valid_from |-> extract_map_get(Min(s.first_seen_extract, link.first_seen_extract)),
     valid_to |-> extract_map_get(Max(s.last_seen_extract, link.last_seen_extract))]

\* INSERT OR REPLACE
insert_or_replace(tbl, row) ==
    {r \in tbl : ~(r.gtin = row.gtin /\ r.indication_code = row.indication_code
                   /\ r.text_id = row.text_id)} \cup {row}

\* a fan-out without the dossier filter of the PACK level
DossierOk_unfiltered(s, link) == s.gtin = s.gtin

(* The fan-out of the code *)

\* the temporal overlap test of fanout_to_sku (negation of its `continue`)
Overlaps(s, link) ==
    ~(s.last_seen_extract < link.first_seen_extract
      \/ s.first_seen_extract > link.last_seen_extract)

\* For PACK-level: also filter by dossier
DossierOk(s, link) ==
    link.limitation_level = "PACK" => s.bag_dossier_no = CodeDossier(link.indication_code)

\* the row fanout_to_sku inserts for one (link, sku) pair
FanoutRow(s, link) ==
    [gtin |-> s.gtin, indication_code |-> link.indication_code,
     text_id |-> link.text_id, code_source |-> link.code_source,
     limitation_level |-> link.limitation_level, is_fallback |-> link.is_fallback,
     valid_from |-> extract_map_get(Max(s.first_seen_extract, link.first_seen_extract)),
     valid_to |-> extract_map_get(Min(s.last_seen_extract, link.last_seen_extract))]

SameTriple(r, row) ==
    r.gtin = row.gtin /\ r.indication_code = row.indication_code /\ r.text_id = row.text_id

\* INSERT OR IGNORE INTO sku_indication under UNIQUE(gtin, indication_code, text_id)
insert_or_ignore(tbl, row) ==
    IF \E r \in tbl : SameTriple(r, row) THEN tbl ELSE tbl \cup {row}

RECURSIVE InsertAll(_, _)
InsertAll(tbl, rows) ==
    IF rows = {} THEN tbl
    ELSE LET row == CHOOSE r \in rows : TRUE
         IN InsertAll(insert_or_ignore(tbl, row), rows \ {row})

\* the (link, sku) pairs that survive both `continue` tests
FanoutPairs(skus, links) ==
    {<<s, link>> \in skus \X links :
        /\ s.preparation_id = link.preparation_id
        /\ Overlaps(s, link)
        /\ DossierOk(s, link)}

fanout_to_sku(tbl, skus, links) ==
    InsertAll(tbl, {FanoutRow(p[1], p[2]) : p \in FanoutPairs(skus, links)})

-----------------------------------------------------------------------------
(* The XML documents of the model *)

Lim(type, de, fr, it, ics, pms) ==
    [LimitationType |-> type, DescriptionDe |-> de, DescriptionFr |-> fr,
     DescriptionIt |-> it, IndicationsCodes |-> ics, PmIndications |-> pms]

Pack(gtin, dossier, price, lims) ==
    [GTIN |-> gtin, BagDossierNo |-> dossier, PublicPrice |-> price, Limitations |-> lims]

Prep(no5, packs, lims) ==
    [SwissmedicNo5 |-> no5, Packs |-> packs, Limitations |-> lims]

G1 == <<"g1">>

G2 == <<"g2">>

P1 == <<"p1">>

P2 == <<"p2">>

\* structured code 11111.01, text (a, b, -)
LimS == Lim("DIA", <<"a">>, <<"b">>, Null, <<Code(D1, <<"01">>)>>, <<>>)

\* no code anywhere: FALLBACK_XX when a dossier is known
LimF == Lim("DIA", <<"b">>, Null, Null, <<>>, <<>>)

\* code 11111.02 in the German prose only
LimT == Lim("DIA", <<"Indikationscode", ":", " ", "11111", ".", "02">>, Null, Null,
            <<>>, <<>>)

\* not indication-type, no code
LimN == Lim("COM", <<"a">>, Null, Null, <<>>, <<>>)

\* "a|" + "b" and "a" + "|b": a "|" on either side of the language boundary
LimX == Lim("DIA", <<"a", "|">>, <<"b">>, Null, <<Code(D1, <<"01">>)>>, <<>>)

LimY == Lim("DIA", <<"a">>, <<"|", "b">>, Null, <<Code(D2, <<"01">>)>>, <<>>)

\* codes in <PmIndications>, one with an empty Code attribute
LimP == Lim("DIA", <<"c">>, Null, Null, <<Null>>, <<Null, Code(D2, <<"02">>)>>)

Doc1 == <<Prep(P1, <<Pack(G1, D1, <<10>>, <<>>)>>, <<LimS>>)>>

Doc2 == <<Prep(P1, <<Pack(G1, D1, Null, <<>>), Pack(G2, D2, <<20>>, <<LimS, LimP>>)>>,
               <<LimF>>)>>

Doc3 == <<Prep(P2, <<Pack(G1, D2, <<12>>, <<>>)>>, <<LimS>>)>>

Doc4 == <<Prep(P1, <<>>, <<LimX>>), Prep(P2, <<Pack(G2, D2, <<20>>, <<>>)>>, <<LimY>>)>>

Doc5 == <<Prep(P1, <<Pack(G1, D1, <<11>>, <<>>)>>, <<LimT, LimN>>)>>

Doc6 == <<Prep(Null, <<Pack(G1, D1, <<10>>, <<>>)>>, <<LimS>>),
          Prep(P2, <<Pack(Null, D1, Null, <<>>), Pack(G2, Null, Null, <<>>)>>, <<LimF>>)>>

\* the text of LimT with the structured code 11111.01 beside it
LimST == Lim("DIA", <<"Indikationscode", ":", " ", "11111", ".", "02">>, Null, Null,
             <<Code(D1, <<"01">>)>>, <<>>)

Doc7 == <<Prep(P1, <<Pack(G1, D1, <<10>>, <<>>)>>, <<LimST>>)>>

Documents == {Doc1, Doc2, Doc3, Doc4, Doc5, Doc6, Doc7}

RECURSIVE LimTexts(_)
LimTexts(lims) ==
    IF lims = <<>> THEN {}
    ELSE {<<Head(lims).DescriptionDe, Head(lims).DescriptionFr, Head(lims).DescriptionIt>>}
         \cup LimTexts(Tail(lims))

RECURSIVE PackTexts(_)
PackTexts(packs) ==
    IF packs = <<>> THEN {}
    ELSE (IF Truthy(Head(packs).GTIN) THEN LimTexts(Head(packs).Limitations) ELSE {})
         \cup PackTexts(Tail(packs))

RECURSIVE DocTexts(_)
\* the text triples of the limitation blocks that process_limitation stores
DocTexts(doc) ==
    IF doc = <<>> THEN {}
    ELSE (IF Truthy(Head(doc).SwissmedicNo5)
          THEN PackTexts(Head(doc).Packs) \cup LimTexts(Head(doc).Limitations)
          ELSE {})
         \cup DocTexts(Tail(doc))

-----------------------------------------------------------------------------
(* build_sku_indication_db.main() *)

CurrentDB == DB(sku, limitation_text, prep_code_link, prep_map)

LoadDB(db) ==
    /\ sku' = db.sku
    /\ limitation_text' = db.limitation_text
    /\ prep_code_link' = db.prep_code_link
    /\ prep_map' = db.prep_map

InitE0 ==
    /\ pack = {}
    /\ limitation = {}
    /\ indication_code = {}
    /\ ic_seq = 0
    /\ limitation_code_link = {}
    /\ name_map = <<>>
    /\ limitation_indication_segment = {}
    /\ todo = {}
    /\ unmatched = {}
    /\ matched_ids = {}
    /\ match_log = {}
    /\ similarity_match_log = {}
    /\ text_segment = {}
    /\ indication_code_name = {}
    /\ existing_map = {}
    /\ map_unmatched = {}
    /\ llm_pc = "gather"
    /\ semaphore = Concurrency
    /\ stats = [processed |-> 0, errors |-> 0, retries |-> 0]
    /\ llm_task = [t \in TextIds |-> [pos |-> "loop", attempt |-> 0, wait |-> 0]]
    /\ llm_text = [t \in TextIds |->
                     [llm_processed_at |-> FALSE, llm_comment |-> "NULL", segments |-> 0]]
    /\ llm_trace = [t \in TextIds |-> [api_calls |-> 0, saves |-> <<>>]]

Init ==
    /\ sku = {}
    /\ limitation_text = {}
    /\ prep_code_link = {}
    /\ sku_indication = {}
    /\ prep_map = <<>>
    /\ extract_id = 0
    /\ pc = "ingest"
    /\ op = "setup_database"
    /\ last_doc = <<>>
    /\ observed = {}
    /\ InitE0

\* one iteration of the file loop of ingest_xml: the next file gets the next id
IngestFile(doc) ==
    /\ pc = "ingest"
    /\ extract_id < MaxExtract
    /\ extract_id' = extract_id + 1
    /\ LoadDB(parse_file(CurrentDB, extract_id + 1, doc))
    /\ last_doc' = doc
    /\ observed' = observed \cup DocTexts(doc)
    /\ op' = "ingest"
    /\ UNCHANGED <<sku_indication, pc>>
    /\ UNCHANGED varsE
    /\ UNCHANGED <<varsLog, varsMap, varsLLM>>

\* the file ingested last is parsed once more under the same extract_id
ReingestFile ==
    /\ pc = "ingest"
    /\ extract_id >= 1
    /\ LoadDB(parse_file(CurrentDB, extract_id, last_doc))
    /\ op' = "reingest"
    /\ UNCHANGED <<sku_indication, extract_id, pc, last_doc, observed>>
    /\ UNCHANGED varsE
    /\ UNCHANGED <<varsLog, varsMap, varsLLM>>

ResolveDates ==
    /\ pc = "ingest"
    /\ sku' = resolve_dates(sku)
    /\ limitation_text' = resolve_dates(limitation_text)
    /\ pc' = "resolved"
    /\ op' = "resolve_dates"
    /\ UNCHANGED <<prep_code_link, sku_indication, prep_map, extract_id, last_doc, observed>>
    /\ UNCHANGED varsE
    /\ UNCHANGED <<varsLog, varsMap, varsLLM>>

\* fanout_to_sku, which ends by dropping _prep_code_link
Fanout ==
    /\ pc = "resolved"
    /\ sku_indication' = fanout_to_sku(sku_indication, sku, prep_code_link)
    /\ prep_code_link' = {}
    /\ pc' = "fanned_out"
    /\ op' = "fanout_to_sku"
    /\ UNCHANGED <<sku, limitation_text, prep_map, extract_id, last_doc, observed>>
    /\ UNCHANGED varsE
    /\ UNCHANGED <<varsLog, varsMap, varsLLM>>

Next ==
    \/ \E doc \in Documents : IngestFile(doc)
    \/ ReingestFile
    \/ ResolveDates
    \/ Fanout

Spec == Init /\ [][Next]_vars

-----------------------------------------------------------------------------
(* The store operations on their own: every upsert and the fan-out insert,  *)
(* applied to arguments drawn from small sets, in any order and with any    *)
(* sequence number.  The operations write disjoint tables, so a run         *)
(* exercises one of them; pc names it and extract_id is the sequence number *)
(* passed to the latest call.                                               *)

OpTexts == {<<"a">>, <<"b">>}

OpCodes == {Code(D1, <<"01">>), Code(D1, <<"02">>)}

Operations == {"upsert_sku", "upsert_limitation_text", "upsert_prep_code_link",
               "upsert_pack", "insert_sku_indication"}

InitOps ==
    /\ sku = {}
    /\ limitation_text = {}
    /\ prep_code_link = {}
    /\ sku_indication = {}
    /\ prep_map = <<>>
    /\ extract_id = 0
    /\ pc \in Operations
    /\ op = "setup_database"
    /\ last_doc = <<>>
    /\ observed = {}
    /\ InitE0

UpsertSkuCall(eid, gtin, dossier, prep_id, price) ==
    /\ pc = "upsert_sku"
    /\ sku' = upsert_sku(sku, eid, gtin, P1, dossier, prep_id, price)
    /\ extract_id' = eid
    /\ op' = "upsert_sku"
    /\ UNCHANGED <<limitation_text, prep_code_link, sku_indication, prep_map, pc,
                   last_doc, observed>>
    /\ UNCHANGED varsE
    /\ UNCHANGED <<varsLog, varsMap, varsLLM>>

UpsertLimitationTextCall(eid, de) ==
    /\ pc = "upsert_limitation_text"
    /\ limitation_text' = upsert_limitation_text(limitation_text, eid,
                              compute_hash(de, Null, Null), "DIA", de, Null, Null)
    /\ observed' = observed \cup {<<de, Null, Null>>}
    /\ extract_id' = eid
    /\ op' = "upsert_limitation_text"
    /\ UNCHANGED <<sku, prep_code_link, sku_indication, prep_map, pc, last_doc>>
    /\ UNCHANGED varsE
    /\ UNCHANGED <<varsLog, varsMap, varsLLM>>

UpsertPrepCodeLinkCall(eid, prep_id, code) ==
    /\ pc = "upsert_prep_code_link"
    /\ prep_code_link' = upsert_prep_code_link(prep_code_link, eid, prep_id, 1, code,
                                               "STRUCTURED_XML", "PREPARATION", 0)
    /\ extract_id' = eid
    /\ op' = "upsert_prep_code_link"
    /\ UNCHANGED <<sku, limitation_text, sku_indication, prep_map, pc, last_doc, observed>>
    /\ UNCHANGED varsE
    /\ UNCHANGED <<varsLog, varsMap, varsLLM>>

UpsertPackCall(eid, gtin, dossier, prep_id, price) ==
    /\ pc = "upsert_pack"
    /\ pack' = upsert_pack(pack, eid, prep_id, gtin, dossier, price)
    /\ extract_id' = eid
    /\ op' = "upsert_pack"
    /\ UNCHANGED <<sku, limitation_text, prep_code_link, sku_indication, prep_map, pc,
                   last_doc, observed, varsR>>
    /\ UNCHANGED <<varsLog, varsMap, varsLLM>>

\* the INSERT OR IGNORE of fanout_to_sku on any overlapping (sku, link) pair
InsertSkuIndicationCall(s, link) ==
    /\ pc = "insert_sku_indication"
    /\ Overlaps(s, link)
    /\ sku_indication' = insert_or_ignore(sku_indication, FanoutRow(s, link))
    /\ op' = "insert_sku_indication"
    /\ UNCHANGED <<sku, limitation_text, prep_code_link, prep_map, extract_id, pc,
                   last_doc, observed>>
    /\ UNCHANGED varsE
    /\ UNCHANGED <<varsLog, varsMap, varsLLM>>

OpSkus ==
    [gtin : {G1, G2}, first_seen_extract : {1}, last_seen_extract : 1..MaxExtract]

OpLinks ==
    [indication_code : {Code(D1, <<"01">>)}, text_id : {1},
     code_source : {"STRUCTURED_XML", "TEXT_PARSED"}, limitation_level : {"PREPARATION"},
     is_fallback : {0}, first_seen_extract : 1..MaxExtract,
     last_seen_extract : {MaxExtract}]

NextOps ==
    \/ \E eid \in 1..MaxExtract, gtin \in {G1, G2}, d \in {D1, D2}, prep_id \in {1, 2},
          price \in {Null, <<10>>} : UpsertSkuCall(eid, gtin, d, prep_id, price)
    \/ \E eid \in 1..MaxExtract, de \in OpTexts : UpsertLimitationTextCall(eid, de)
    \/ \E eid \in 1..MaxExtract, prep_id \in {1, 2}, code \in OpCodes :
          UpsertPrepCodeLinkCall(eid, prep_id, code)
    \/ \E eid \in 1..MaxExtract, gtin \in {G1, G2, Null}, d \in {D1, D2},
          prep_id \in {1, 2}, price \in {Null, <<10>>} :
          UpsertPackCall(eid, gtin, d, prep_id, price)
    \/ \E s \in OpSkus, link \in OpLinks : InsertSkuIndicationCall(s, link)

SpecOps == InitOps /\ [][NextOps]_vars

-----------------------------------------------------------------------------
(* extract_limitations.py: strings                                         *)
(* A string is a tuple of atoms: words, digit runs, markup tags and single *)
(* punctuation or blank characters.                                        *)

\* the characters of an atom, lower-cased atoms only (SequenceMatcher compares
\* normalized, lower-cased names character by character)
Chars(a) ==
    CASE a = "psoriasis" -> <<"p", "s", "o", "r", "i", "a", "s", "i", "s">>
      [] a = "arthritis" -> <<"a", "r", "t", "h", "r", "i", "t", "i", "s">>
      [] a = "plaque" -> <<"p", "l", "a", "q", "u", "e">>
      [] a = "myelom" -> <<"m", "y", "e", "l", "o", "m">>
      [] a = "revlimid" -> <<"r", "e", "v", "l", "i", "m", "i", "d">>
      [] a = "lenalidomid" -> <<"l", "e", "n", "a", "l", "i", "d", "o", "m", "i", "d">>
      [] a = "spirig" -> <<"s", "p", "i", "r", "i", "g">>
      [] a = "kombination" -> <<"k", "o", "m", "b", "i", "n", "a", "t", "i", "o", "n">>
      [] a = "dexamethason" -> <<"d", "e", "x", "a", "m", "e", "t", "h", "a", "s", "o", "n">>
      [] a = "in" -> <<"i", "n">>
      [] a = "mit" -> <<"m", "i", "t">>
      [] a = "und" -> <<"u", "n", "d">>
      [] a = "11111" -> <<"1", "1", "1", "1", "1">>
      [] a = "22222" -> <<"2", "2", "2", "2", "2">>
      [] a = "01" -> <<"0", "1">>
      [] a = "02" -> <<"0", "2">>
      [] a = "xx" -> <<"x", "x">>
      [] a = "XX" -> <<"X", "X">>
      [] OTHER -> <<a>>

RECURSIVE CharsOf(_)
CharsOf(s) == IF s = <<>> THEN <<>> ELSE Chars(Head(s)) \o CharsOf(Tail(s))

\* atoms made of \W characters
NonWordAtoms == {" ", ":", ",", ".", "|", "-", "<b>", "</b>", "<br>"}

RECURSIVE LStrip(_)
LStrip(s) == IF s # <<>> /\ IsSpace(Head(s)) THEN LStrip(Tail(s)) ELSE s

RECURSIVE RStrip(_)
RStrip(s) ==
    IF s # <<>> /\ IsSpace(s[Len(s)]) THEN RStrip(SubSeq(s, 1, Len(s) - 1)) ELSE s

\* str.strip()
Strip(s) == LStrip(RStrip(s))

RECURSIVE RStripColon(_)
\* str.rstrip(":")
RStripColon(s) ==
    IF s # <<>> /\ s[Len(s)] = ":" THEN RStripColon(SubSeq(s, 1, Len(s) - 1)) ELSE s

RECURSIVE CollapseSpaces(_)
\* re.sub(r"\s+", " ", s)
CollapseSpaces(s) ==
    IF s = <<>> THEN <<>>
    ELSE IF IsSpace(Head(s))
         THEN <<" ">> \o CollapseSpaces(LStrip(s))
         ELSE <<Head(s)>> \o CollapseSpaces(Tail(s))

StartsWith(s, prefix) ==
    Len(prefix) <= Len(s) /\ SubSeq(s, 1, Len(prefix)) = prefix

RECURSIVE Replace(_, _, _)
\* str.replace(old, new): every non-overlapping occurrence, left to right
Replace(s, old, new) ==
    IF s = <<>> THEN <<>>
    ELSE IF StartsWith(s, old)
         THEN new \o Replace(SubSeq(s, Len(old) + 1, Len(s)), old, new)
         ELSE <<Head(s)>> \o Replace(Tail(s), old, new)

\* " | ".join(parts)
RECURSIVE JoinPipe(_)
JoinPipe(parts) ==
    IF Len(parts) = 1 THEN parts[1]
    ELSE parts[1] \o <<" ", "|", " ">> \o JoinPipe(Tail(parts))

\* "|" in s
HasPipe(s) == \E i \in 1..Len(s) : s[i] = "|"

RECURSIVE SplitPipe(_)
\* s.split("|")
SplitPipe(s) ==
    IF ~HasPipe(s) THEN <<s>>
    ELSE LET i == CHOOSE k \in 1..Len(s) : s[k] = "|" /\ \A j \in 1..(k - 1) : s[j] # "|"
         IN <<SubSeq(s, 1, i - 1)>> \o SplitPipe(SubSeq(s, i + 1, Len(s)))

\* split_code: (dossier_part, indication_part)
split_code(code_value) ==
    IF HasDot(code_value)
    THEN LET i == CHOOSE k \in 1..Len(code_value) :
                      code_value[k] = "." /\ \A j \in 1..(k - 1) : code_value[j] # "."
         IN <<SubSeq(code_value, 1, i - 1), SubSeq(code_value, i + 1, Len(code_value))>>
    ELSE <<code_value, Null>>

\* c.split(".")[1] if "." in c else c
IndPart(c) ==
    IF HasDot(c)
    THEN LET rest == split_code(c)[2]
         IN IF HasDot(rest) THEN split_code(rest)[1] ELSE rest
    ELSE c

\* RE_NUMERIC.search(s): the positions where (\d{5}\.\d{2})\.?\b matches
NumericAt(s, c) ==
    /\ c + 2 <= Len(s)
    /\ IsDigit5(s[c]) /\ s[c + 1] = "." /\ IsDigit2(s[c + 2])
    /\ (c + 2 = Len(s) \/ s[c + 3] \in NonWordAtoms)

HasNumeric(s) == \E c \in 1..Len(s) : NumericAt(s, c)

\* .group(1) of the first match
FirstNumeric(s) ==
    LET c == CHOOSE k \in 1..Len(s) : NumericAt(s, k) /\ \A j \in 1..(k - 1) : ~NumericAt(s, j)
    IN SubSeq(s, c, c + 2)

-----------------------------------------------------------------------------
(* extract_limitations.py: bold names and indication segments *)

\* position of the first </b> that closes a <b> at i with something in between
CloseOf(text, i) ==
    CHOOSE j \in (i + 2)..Len(text) :
        text[j] = "</b>" /\ \A k \in (i + 2)..(j - 1) : text[k] # "</b>"

BoldAt(text, i) ==
    text[i] = "<b>" /\ \E j \in (i + 2)..Len(text) : text[j] = "</b>"

RECURSIVE BoldFrom(_, _)
\* RE_BOLD.findall(text) from position p on
BoldFrom(text, p) ==
    LET starts == {i \in p..Len(text) : BoldAt(text, i)}
    IN IF starts = {} THEN <<>>
       ELSE LET i == CHOOSE x \in starts : \A y \in starts : x <= y
                j == CloseOf(text, i)
            IN <<SubSeq(text, i + 1, j - 1)>> \o BoldFrom(text, j + 1)

\* one language of extract_indication_names
BoldName(text) ==
    IF Truthy(text) /\ BoldFrom(text, 1) # <<>> THEN JoinPipe(BoldFrom(text, 1)) ELSE Null

extract_indication_names(lim_type, desc_de, desc_fr, desc_it) ==
    IF lim_type # "DIA" THEN <<Null, Null, Null>>
    ELSE <<BoldName(desc_de), BoldName(desc_fr), BoldName(desc_it)>>

\* the <br> run in front of a header at b, not reaching back beyond p
BreakRun(text, p, b) ==
    {s \in p..(b - 1) : text[s] = "<br>"
                        /\ \A k \in s..(b - 1) : text[k] = "<br>" \/ IsSpace(text[k])}

\* faulty variant: every bold marker is a header
HeaderAt_any_bold(text, p, b) == BoldAt(text, b)

\* RE_HEADER_BOLD: a bold marker at the start of the text or after a line break
HeaderAt(text, p, b) ==
    /\ BoldAt(text, b)
    /\ (b = 1 /\ p = 1) \/ BreakRun(text, p, b) # {}

RECURSIVE HeadersFrom(_, _)
\* RE_HEADER_BOLD.finditer(text) from position p on: start, name, end of each match
HeadersFrom(text, p) ==
    LET cands == {b \in p..Len(text) : HeaderAt(text, p, b)}
    IN IF cands = {} THEN <<>>
       ELSE LET b == CHOOSE x \in cands : \A y \in cands : x <= y
                j == CloseOf(text, b)
                run == BreakRun(text, p, b)
                s == IF run = {} THEN b ELSE CHOOSE x \in run : \A y \in run : x <= y
            IN <<[start |-> s, name |-> SubSeq(text, b + 1, j - 1), end |-> j]>>
               \o HeadersFrom(text, j + 1)

\* list of (indication_name, segment_text)
split_text_by_indication(text) ==
    IF ~Truthy(text) THEN <<>>
    ELSE LET headers == HeadersFrom(text, 1)
         IN [i \in 1..Len(headers) |->
                <<headers[i].name,
                  Strip(SubSeq(text, headers[i].end + 1,
                               IF i + 1 <= Len(headers) THEN headers[i + 1].start - 1
                               ELSE Len(text)))>>]

\* the aligned segments: position i of each language, None where a language
\* has fewer segments
AlignSegments(segs_de, segs_fr, segs_it, max_len) ==
    [i \in 1..max_len |->
        [order |-> i - 1,
         name_de |-> IF i <= Len(segs_de) THEN segs_de[i][1] ELSE Null,
         name_fr |-> IF i <= Len(segs_fr) THEN segs_fr[i][1] ELSE Null,
         name_it |-> IF i <= Len(segs_it) THEN segs_it[i][1] ELSE Null,
         text_de |-> IF i <= Len(segs_de) THEN segs_de[i][2] ELSE Null,
         text_fr |-> IF i <= Len(segs_fr) THEN segs_fr[i][2] ELSE Null,
         text_it |-> IF i <= Len(segs_it) THEN segs_it[i][2] ELSE Null]]

AlignToLongest(segs_de, segs_fr, segs_it) ==
    AlignSegments(segs_de, segs_fr, segs_it,
                  Max(Len(segs_de), Max(Len(segs_fr), Len(segs_it))))

split_limitation_texts(desc_de, desc_fr, desc_it) ==
    AlignToLongest(split_text_by_indication(desc_de), split_text_by_indication(desc_fr),
                   split_text_by_indication(desc_it))

\* the members of STRUCTURAL_BOLD_NAMES and STRUCTURAL_PREFIXES used in the model
STRUCTURAL_BOLD_NAMES == {<<"UND">>, <<"ODER">>, <<"und">>, <<"oder">>}

STRUCTURAL_PREFIXES == {<<"Vor", " ", "Therapiebeginn">>, <<"Erwachsene">>}

DigitAtoms == Digit5Atoms \cup Digit2Atoms \cup {"80"}

\* s.replace(".", "").replace(",", "").isdigit()
IsDigitName(s) ==
    LET d == SelectSeq(s, LAMBDA a : a \notin {".", ","})
    IN d # <<>> /\ \A i \in 1..Len(d) : d[i] \in DigitAtoms

\* str.islower(): a cased character and no upper-case one
IsLowerName(s) ==
    /\ LowerStr(s) = s
    /\ \E i \in 1..Len(s) : s[i] \notin NonWordAtoms \cup DigitAtoms

_is_structural_name(name) ==
    IF ~Truthy(name) THEN TRUE
    ELSE LET stripped == RStripColon(Strip(name))
         IN \/ stripped \in STRUCTURAL_BOLD_NAMES
            \/ \E prefix \in STRUCTURAL_PREFIXES : StartsWith(stripped, prefix)
            \/ IsDigitName(stripped)
            \/ Len(CharsOf(LowerStr(stripped))) <= 3 /\ IsLowerName(stripped)

-----------------------------------------------------------------------------
(* extract_limitations.py: name normalization and similarity *)

\* the entries of BRAND_CANONICAL used in the model, longest brand first
_BRAND_SORTED ==
    << <<<<"Lenalidomid", " ", "Spirig">>, <<"LENALIDOMID">>>>,
       <<<<"REVLIMID">>, <<"LENALIDOMID">>>> >>

_normalize_indication_name(name) ==
    IF ~Truthy(name) THEN <<>>
    ELSE CollapseSpaces(Strip(RStripColon(Strip(name))))

RECURSIVE ReplaceBrands(_, _)
ReplaceBrands(name, brands) ==
    IF brands = <<>> THEN name
    ELSE ReplaceBrands(Replace(name, Head(brands)[1], Head(brands)[2]), Tail(brands))

_normalize_brands(name) == ReplaceBrands(name, _BRAND_SORTED)

RECURSIVE RStripComma(_)
RStripComma(s) ==
    IF s # <<>> /\ s[Len(s)] = "," THEN RStripComma(SubSeq(s, 1, Len(s) - 1)) ELSE s

\* the length of the leading run of non-blank atoms: \S+
RECURSIVE NonSpaceRun(_)
NonSpaceRun(s) == IF s = <<>> \/ IsSpace(Head(s)) THEN 0 ELSE 1 + NonSpaceRun(Tail(s))

\* ^Kombination\s+(\S+),?\s*(.*)  ->  "{brand} in Kombination mit {rest}"
_normalize_kombination(name) ==
    IF /\ Len(name) >= 3
       /\ name[1] = "Kombination"
       /\ IsSpace(name[2])
       /\ LStrip(Tail(name)) # <<>>
    THEN LET after == LStrip(Tail(name))
             n == NonSpaceRun(after)
             brand == RStripComma(SubSeq(after, 1, n))
             rest == LStrip(SubSeq(after, n + 1, Len(after)))
         IN brand \o <<" ", "in", " ", "Kombination", " ", "mit", " ">> \o rest
    ELSE name

RECURSIVE BlockLen(_, _, _, _, _, _)
\* the longest k with a[i..i+k-1] = b[j..j+k-1] inside a[..ahi], b[..bhi]
BlockLen(a, i, ahi, b, j, bhi) ==
    IF i > ahi \/ j > bhi THEN 0
    ELSE IF a[i] # b[j] THEN 0
    ELSE 1 + BlockLen(a, i + 1, ahi, b, j + 1, bhi)

RECURSIVE MatchingSize(_, _, _, _, _, _)
\* SequenceMatcher.get_matching_blocks: the total size of the matching blocks of
\* a[alo..ahi] and b[blo..bhi]; find_longest_match takes the longest block, the
\* one starting earliest in a, and of those the one starting earliest in b.
MatchingSize(a, alo, ahi, b, blo, bhi) ==
    IF alo > ahi \/ blo > bhi THEN 0
    ELSE LET blocks == {<<p[1], p[2], BlockLen(a, p[1], ahi, b, p[2], bhi)>> :
                            p \in {q \in (alo..ahi) \X (blo..bhi) : a[q[1]] = b[q[2]]}}
         IN IF blocks = {} THEN 0
            ELSE LET k == CHOOSE x \in {t[3] : t \in blocks} :
                              \A t \in blocks : t[3] <= x
                     longest == {t \in blocks : t[3] = k}
                     i == CHOOSE x \in {t[1] : t \in longest} :
                              \A t \in longest : x <= t[1]
                     j == CHOOSE x \in {t[2] : t \in {s \in longest : s[1] = i}} :
                              \A t \in {s \in longest : s[1] = i} : x <= t[2]
                 IN k + MatchingSize(a, alo, i - 1, b, blo, j - 1)
                      + MatchingSize(a, i + k, ahi, b, j + k, bhi)

\* SequenceMatcher(None, a, b).ratio() = 2.0 * M / T, kept as the fraction <<2M, T>>
\* (1.0 when both strings are empty)
ratio(a, b) ==
    LET ca == CharsOf(a)
        cb == CharsOf(b)
    IN IF Len(ca) + Len(cb) = 0 THEN <<1, 1>>
       ELSE <<2 * MatchingSize(ca, 1, Len(ca), cb, 1, Len(cb)), Len(ca) + Len(cb)>>

\* x > y, x >= y on fractions
FracGt(x, y) == x[1] * y[2] > y[1] * x[2]

FracGe(x, y) == x[1] * y[2] >= y[1] * x[2]

\* x - y >= 0.05
FracGapOk(x, y) == 20 * (x[1] * y[2] - y[1] * x[2]) >= x[2] * y[2]

-----------------------------------------------------------------------------
(* extract_limitations.py, phase 1: ingestion *)

\* "limitation_code = ?" never holds for a NULL LimitationCode, so such a block
\* is never found again.
SameLimitation(r, preparation_id, lim_code, level, c_hash) ==
    /\ Truthy(lim_code)
    /\ r.preparation_id = preparation_id /\ r.limitation_code = lim_code
    /\ r.limitation_level = level /\ r.content_hash = c_hash

upsert_limitation(tbl, eid, preparation_id, level, lim_code, lim_type, names, desc_de, desc_fr, desc_it) ==
    LET c_hash == compute_hash(desc_de, desc_fr, desc_it)
    IN IF \E r \in tbl : SameLimitation(r, preparation_id, lim_code, level, c_hash)
       THEN {IF SameLimitation(r, preparation_id, lim_code, level, c_hash)
             THEN [r EXCEPT !.last_seen_extract = eid]
             ELSE r : r \in tbl}
       ELSE tbl \cup {[limitation_id |-> Cardinality(tbl) + 1,
                       preparation_id |-> preparation_id,
                       limitation_level |-> level,
                       limitation_code |-> lim_code,
                       limitation_type |-> lim_type,
                       indication_name_de |-> names[1],
                       indication_name_fr |-> names[2],
                       indication_name_it |-> names[3],
                       description_de |-> desc_de,
                       description_fr |-> desc_fr,
                       description_it |-> desc_it,
                       first_seen_extract |-> eid, last_seen_extract |-> eid,
                       content_hash |-> c_hash]}

\* the limitation_id upsert_limitation returns: the row found, else lastrowid
LimitationIdOf(tbl, preparation_id, level, lim_code, c_hash) ==
    IF \E r \in tbl : SameLimitation(r, preparation_id, lim_code, level, c_hash)
    THEN (CHOOSE r \in tbl :
              SameLimitation(r, preparation_id, lim_code, level, c_hash)).limitation_id
    ELSE Cardinality(tbl) + 1

\* the table indication_code with its AUTOINCREMENT counter
upsert_indication_code(ic, eid, limitation_id, preparation_id, bag_dossier_no, code_value, code_source) ==
    IF \E r \in ic.rows : r.limitation_id = limitation_id /\ r.code_value = code_value
    THEN [ic EXCEPT !.rows =
             {IF r.limitation_id = limitation_id /\ r.code_value = code_value
              THEN [r EXCEPT !.last_seen_extract = eid]
              ELSE r : r \in ic.rows}]
    ELSE [rows |-> ic.rows \cup {[indication_code_id |-> ic.seq + 1,
                                  limitation_id |-> limitation_id,
                                  preparation_id |-> preparation_id,
                                  bag_dossier_no |-> bag_dossier_no,
                                  code_value |-> code_value,
                                  code_source |-> code_source,
                                  first_seen_extract |-> eid,
                                  last_seen_extract |-> eid]},
          seq |-> ic.seq + 1]

upsert_code_link(tbl, eid, text_id, preparation_id, code, code_source, level) ==
    IF \E r \in tbl : r.text_id = text_id /\ r.preparation_id = preparation_id
                      /\ r.indication_code = code
    THEN {IF r.text_id = text_id /\ r.preparation_id = preparation_id
             /\ r.indication_code = code
          THEN [r EXCEPT !.last_seen_extract = eid]
          ELSE r : r \in tbl}
    ELSE tbl \cup {[text_id |-> text_id, preparation_id |-> preparation_id,
                    indication_code |-> code, code_source |-> code_source,
                    limitation_level |-> level,
                    first_seen_extract |-> eid, last_seen_extract |-> eid]}

RECURSIVE UpsertIndicationCodes(_, _, _, _, _, _, _)
\* for code_value in codes: upsert_indication_code(...)
UpsertIndicationCodes(ic, eid, limitation_id, preparation_id, bag_dossier_no, codes, source) ==
    IF codes = {} THEN ic
    ELSE LET code_value == CHOOSE c \in codes : TRUE
         IN UpsertIndicationCodes(
                upsert_indication_code(ic, eid, limitation_id, preparation_id,
                                       bag_dossier_no, code_value, source),
                eid, limitation_id, preparation_id, bag_dossier_no,
                codes \ {code_value}, source)

RECURSIVE UpsertCodeLinks(_, _, _, _, _, _, _, _)
\* for code_value in codes: upsert_code_link(...), fallback codes as "{bag}.XX"
UpsertCodeLinks(tbl, eid, text_id, preparation_id, bag_dossier_no, codes, source, level) ==
    IF codes = {} THEN tbl
    ELSE LET code_value == CHOOSE c \in codes : TRUE
             link_code == IF source = "FALLBACK_XX" THEN Code(bag_dossier_no, <<"XX">>)
                          ELSE code_value
         IN UpsertCodeLinks(
                upsert_code_link(tbl, eid, text_id, preparation_id, link_code, source, level),
                eid, text_id, preparation_id, bag_dossier_no, codes \ {code_value},
                source, level)

\* process_limitation of extract_limitations.py; db is the store of that program
el_process_limitation(db, eid, preparation_id, lim_elem, level, bag_dossier_no) ==
    LET lim_code == lim_elem.LimitationCode
        lim_type == lim_elem.LimitationType
        desc_de == lim_elem.DescriptionDe
        desc_fr == lim_elem.DescriptionFr
        desc_it == lim_elem.DescriptionIt
        c_hash == compute_hash(desc_de, desc_fr, desc_it)
        names == extract_indication_names(lim_type, desc_de, desc_fr, desc_it)
        limitation_id == LimitationIdOf(db.limitation, preparation_id, level, lim_code, c_hash)
        lims == upsert_limitation(db.limitation, eid, preparation_id, level, lim_code,
                                  lim_type, names, desc_de, desc_fr, desc_it)
        structured == extract_codes_structured(lim_elem)
        parsed == IF structured = {} THEN extract_codes_from_text(desc_de, desc_fr, desc_it)
                  ELSE {}
        use_fallback == structured = {} /\ parsed = {}
                        /\ lim_type = "DIA" /\ Truthy(bag_dossier_no)
        codes == IF structured # {} THEN structured
                 ELSE IF parsed # {} THEN parsed
                 ELSE IF use_fallback THEN {Code(bag_dossier_no, <<"xx">>)}
                 ELSE {}
        source == IF structured # {} THEN "STRUCTURED_XML"
                  ELSE IF use_fallback THEN "FALLBACK_XX"
                  ELSE "TEXT_PARSED"
        ic == UpsertIndicationCodes(db.indication_code, eid, limitation_id, preparation_id,
                                    bag_dossier_no, codes, source)
        texts == upsert_limitation_text(db.limitation_text, eid, c_hash, lim_type,
                                        desc_de, desc_fr, desc_it)
        text_id == TextIdOf(texts, c_hash)
    IN IF level = "ITCODE"
       THEN [db EXCEPT !.limitation = lims, !.indication_code = ic]
       ELSE [db EXCEPT !.limitation = lims, !.indication_code = ic,
                       !.limitation_text = texts,
                       !.limitation_code_link =
                           UpsertCodeLinks(db.limitation_code_link, eid, text_id,
                                           preparation_id, bag_dossier_no, codes, source, level)]

RECURSIVE el_process_limitations(_, _, _, _, _, _)
el_process_limitations(db, eid, preparation_id, lims, level, bag_dossier_no) ==
    IF lims = <<>> THEN db
    ELSE el_process_limitations(
             el_process_limitation(db, eid, preparation_id, Head(lims), level, bag_dossier_no),
             eid, preparation_id, Tail(lims), level, bag_dossier_no)

RECURSIVE el_process_packs(_, _, _, _)
\* for pack_elem in prep_elem.findall(".//Packs/Pack"): upsert_pack, pack-level limitations
el_process_packs(db, eid, preparation_id, packs) ==
    IF packs = <<>> THEN db
    ELSE LET pack_elem == Head(packs)
             db1 == [db EXCEPT !.pack = upsert_pack(db.pack, eid, preparation_id,
                                                    pack_elem.GTIN, pack_elem.BagDossierNo,
                                                    pack_elem.PublicPrice)]
             db2 == el_process_limitations(db1, eid, preparation_id, pack_elem.Limitations,
                                           "PACK", pack_elem.BagDossierNo)
         IN el_process_packs(db2, eid, preparation_id, Tail(packs))

\* all_bag_dossier_nos[0] if all_bag_dossier_nos else None
el_FallbackBag(packs) ==
    LET with == {i \in 1..Len(packs) : Truthy(packs[i].BagDossierNo)}
    IN IF with = {} THEN Null
       ELSE packs[CHOOSE i \in with : \A j \in with : i <= j].BagDossierNo

el_process_preparation(db, eid, prep_elem) ==
    IF ~Truthy(prep_elem.SwissmedicNo5) THEN db
    ELSE LET pm == get_preparation_id_map(db.prep_map, prep_elem.SwissmedicNo5)
             preparation_id == PrepIdIn(pm, prep_elem.SwissmedicNo5)
             fallback_bag == el_FallbackBag(prep_elem.Packs)
             db1 == el_process_packs([db EXCEPT !.prep_map = pm], eid, preparation_id,
                                     prep_elem.Packs)
             db2 == el_process_limitations(db1, eid, preparation_id, prep_elem.Limitations,
                                           "PREPARATION", fallback_bag)
         IN el_process_limitations(db2, eid, preparation_id, prep_elem.ItCodes,
                                   "ITCODE", fallback_bag)

RECURSIVE el_parse_file(_, _, _)
el_parse_file(db, eid, doc) ==
    IF doc = <<>> THEN db
    ELSE el_parse_file(el_process_preparation(db, eid, Head(doc)), eid, Tail(doc))

-----------------------------------------------------------------------------
(* extract_limitations.py, phases 3 and 4: the operations on the store *)

LimitationOf(lim_id) == CHOOSE l \in limitation : l.limitation_id = lim_id

\* the SELECT of build_name_code_map
NameMapCandidates ==
    {[indication_name_de |-> p[2].indication_name_de,
      code_value |-> p[1].code_value,
      bag_dossier_no |-> p[1].bag_dossier_no] :
        p \in {q \in indication_code \X limitation :
                  /\ q[1].limitation_id = q[2].limitation_id
                  /\ q[1].code_source = "STRUCTURED_XML"
                  /\ Truthy(q[2].indication_name_de)}}

\* UNIQUE(indication_name_de, code_value)
SameMapKey(a, b) ==
    a.indication_name_de = b.indication_name_de /\ a.code_value = b.code_value

\* the join of retroactive_code_assignment: (indication_code_id, limitation_id, code_value)
RetroCodeRows ==
    {[ic_id |-> p[1].indication_code_id, lim_id |-> p[1].limitation_id,
      mapped_code |-> p[2].code_value] :
        p \in {q \in indication_code \X name_map :
                  /\ q[1].code_source = "FALLBACK_XX"
                  /\ Truthy(q[1].bag_dossier_no)
                  /\ q[1].bag_dossier_no = q[2].bag_dossier_no
                  /\ LimitationOf(q[1].limitation_id).indication_name_de
                         = q[2].indication_name_de}}

\* one iteration of the loop of retroactive_code_assignment
retro_code_row(ic, row) ==
    IF \E r \in ic : /\ r.limitation_id = row.lim_id /\ r.code_value = row.mapped_code
                     /\ r.indication_code_id # row.ic_id
    THEN {r \in ic : r.indication_code_id # row.ic_id}
    ELSE {IF r.indication_code_id = row.ic_id
          THEN [r EXCEPT !.code_value = row.mapped_code, !.code_source = "NAME_MAPPED"]
          ELSE r : r \in ic}

\* the limitations build_indication_segments selects
SegmentedLimitations ==
    {l \in limitation : /\ l.limitation_type = "DIA"
                        /\ Truthy(l.indication_name_de)
                        /\ l.limitation_code # <<"KLEINPACKUNG">>}

real_segments(l) ==
    SelectSeq(split_limitation_texts(l.description_de, l.description_fr, l.description_it),
              LAMBDA s : ~_is_structural_name(s.name_de))

RECURSIVE InsertSegments(_, _)
\* the rows inserted for one limitation: segment_order is the index in the
\* filtered list (enumerate(segments_to_store))
SegmentRows(tbl, l, segments_to_store) ==
    {[segment_id |-> Cardinality(tbl) + i,
      limitation_id |-> l.limitation_id,
      preparation_id |-> l.preparation_id,
      segment_order |-> i - 1,
      indication_name_de |-> segments_to_store[i].name_de,
      indication_name_fr |-> segments_to_store[i].name_fr,
      indication_name_it |-> segments_to_store[i].name_it,
      segment_text_de |-> segments_to_store[i].text_de,
      segment_text_fr |-> segments_to_store[i].text_fr,
      segment_text_it |-> segments_to_store[i].text_it,
      matched_code_value |-> Null,
      matched_code_source |-> Null] : i \in 1..Len(segments_to_store)}

\* INSERT OR IGNORE of the renumbered segments of every selected limitation
InsertSegmentsOf(tbl, lims, l) ==
    InsertSegments(tbl \cup SegmentRows(tbl, l, real_segments(l)), lims \ {l})

InsertSegments(tbl, lims) ==
    IF lims = {} THEN tbl
    ELSE InsertSegmentsOf(tbl, lims,
             CHOOSE x \in lims : \A y \in lims : x.limitation_id <= y.limitation_id)

\* UPDATE limitation_indication_segment SET matched_code_value = ?,
\* matched_code_source = ? WHERE segment_id = ?
SetMatched(tbl, seg_id, code_value, source) ==
    {IF s.segment_id = seg_id
     THEN [s EXCEPT !.matched_code_value = code_value, !.matched_code_source = source]
     ELSE s : s \in tbl}

SegmentsOf(lim_id) == {s \in limitation_indication_segment : s.limitation_id = lim_id}

\* the FALLBACK_XX rows retroactive_segment_mapping fetches
FallbackRows ==
    {r \in indication_code : r.code_source = "FALLBACK_XX"
                             /\ SegmentsOf(r.limitation_id) # {}}

\* the rows of the mapping table for a segment name in the dossier of a fallback row
SegmentMappings(s, bag_dossier_no) ==
    {m \in name_map : /\ m.indication_name_de = s.indication_name_de
                      /\ Truthy(bag_dossier_no)
                      /\ m.bag_dossier_no = bag_dossier_no}

\* the segments of a fallback row that find a mapping
MappableSegments(row) ==
    {s \in SegmentsOf(row.limitation_id) :
        /\ ~_is_structural_name(s.indication_name_de)
        /\ SegmentMappings(s, row.bag_dossier_no) # {}}

RECURSIVE InsertSegmentMapped(_, _, _, _)
\* for seg_id, seg_name_de, code_value in matched_codes: INSERT unless existing
InsertSegmentMapped(ic, row, pending, code_of) ==
    IF pending = {} THEN ic
    ELSE LET s == CHOOSE x \in pending : \A y \in pending : x.segment_order <= y.segment_order
             code_value == code_of[s.segment_id]
             existing == \E r \in ic.rows : r.limitation_id = row.limitation_id
                                            /\ r.code_value = code_value
             ic1 == IF existing THEN ic
                    ELSE [rows |-> ic.rows \cup
                                     {[indication_code_id |-> ic.seq + 1,
                                       limitation_id |-> row.limitation_id,
                                       preparation_id |->
                                           LimitationOf(row.limitation_id).preparation_id,
                                       bag_dossier_no |-> row.bag_dossier_no,
                                       code_value |-> code_value,
                                       code_source |-> "SEGMENT_MAPPED",
                                       first_seen_extract |-> row.first_seen_extract,
                                       last_seen_extract |-> row.last_seen_extract]},
                          seq |-> ic.seq + 1]
         IN InsertSegmentMapped(ic1, row, pending \ {s}, code_of)

RECURSIVE AnnotateSegments(_, _, _, _)
\* the UPDATEs of the matched segments
AnnotateSegments(tbl, pending, code_of, source) ==
    IF pending = {} THEN tbl
    ELSE LET s == CHOOSE x \in pending : TRUE
         IN AnnotateSegments(SetMatched(tbl, s.segment_id, code_of[s.segment_id], source),
                             pending \ {s}, code_of, source)

\* the mapping rows _annotate_segments_with_existing_codes finds for a segment
ExistingCodeMappings(s) ==
    {m \in name_map :
        /\ m.indication_name_de = s.indication_name_de
        /\ \E r \in indication_code :
              r.limitation_id = s.limitation_id /\ r.code_value = m.code_value}

-----------------------------------------------------------------------------
(* extract_limitations.py, phase 4d: similarity_segment_mapping *)

\* mapping: the single-name entries; mapping_piped: the entries with a "|"
mapping == {m \in name_map : ~HasPipe(m.indication_name_de)}

mapping_piped == {m \in name_map : HasPipe(m.indication_name_de)}

NormLower(name) == LowerStr(_normalize_indication_name(name))

BrandNorm(name) == LowerStr(_normalize_brands(_normalize_indication_name(name)))

KombiNorm(name) ==
    LowerStr(_normalize_brands(_normalize_kombination(_normalize_indication_name(name))))

map_by_dossier(bag) == {m \in mapping : m.bag_dossier_no = bag}

map_by_norm_name(norm) == {m \in mapping : NormLower(m.indication_name_de) = norm}

map_by_brand_norm(key) ==
    {m \in mapping :
        \/ BrandNorm(m.indication_name_de) = key
        \/ /\ KombiNorm(m.indication_name_de) # BrandNorm(m.indication_name_de)
           /\ KombiNorm(m.indication_name_de) = key}

\* the keys a part of a piped name is indexed under
PipePartKeys(part) ==
    IF NormLower(part) = <<>> THEN {}
    ELSE {NormLower(part)}
         \cup (IF BrandNorm(part) # NormLower(part) THEN {BrandNorm(part)} ELSE {})

map_by_pipe_part(key) ==
    {m \in mapping_piped :
        \E i \in 1..Len(SplitPipe(m.indication_name_de)) :
            key \in PipePartKeys(SplitPipe(m.indication_name_de)[i])}

\* The same-dossier / cross-dossier decision shared by the layers 2, 2c and 3:
\* the entries of the segment's own dossier win (the first in list order, any of
\* them here); otherwise the segment's dossier is joined with the indication part
\* when all candidates agree on it. The result is the set of possible
\* <<code, source>>; empty when the segment stays unmatched.
DossierMatch(candidates, bag, source_same, source_cross) ==
    LET same == {m \in candidates : m.bag_dossier_no = bag}
        indication_parts == {IndPart(m.code_value) : m \in candidates}
    IN IF same # {} THEN {<<m.code_value, source_same>> : m \in same}
       ELSE IF candidates # {} /\ Cardinality(indication_parts) = 1 /\ Truthy(bag)
            THEN {<<Code(bag, CHOOSE x \in indication_parts : TRUE), source_cross>>}
            ELSE {}

Layer1Outcomes(u) ==
    IF HasNumeric(u.indication_name_de)
    THEN {<<FirstNumeric(u.indication_name_de), "EMBEDDED_IN_NAME">>}
    ELSE {}

Layer2Outcomes(u) ==
    DossierMatch(map_by_norm_name(NormLower(u.indication_name_de)), u.bag_dossier_no,
                 "NORMALIZED_MATCH", "NORMALIZED_CROSS")

PipeOutcomes(variant, bag) ==
    DossierMatch(map_by_pipe_part(variant), bag, "PIPE_PART_MATCH", "PIPE_PART_CROSS")

Layer2cOutcomes(u) ==
    LET seg_norm == NormLower(u.indication_name_de)
        seg_kombi == KombiNorm(u.indication_name_de)
    IN IF PipeOutcomes(seg_norm, u.bag_dossier_no) # {}
       THEN PipeOutcomes(seg_norm, u.bag_dossier_no)
       ELSE IF PipeOutcomes(seg_kombi, u.bag_dossier_no) # {}
            THEN PipeOutcomes(seg_kombi, u.bag_dossier_no)
            ELSE IF seg_kombi # seg_norm
                 THEN DossierMatch(map_by_brand_norm(seg_kombi), u.bag_dossier_no,
                                   "KOMBI_NORMALIZED", "KOMBI_CROSS")
                 ELSE {}

Layer3Outcomes(u) ==
    DossierMatch(map_by_brand_norm(BrandNorm(u.indication_name_de)), u.bag_dossier_no,
                 "BRAND_NORMALIZED", "BRAND_CROSS")

\* ratio of the segment name against one mapping entry
FuzzyRatio(u, m) == ratio(NormLower(u.indication_name_de), NormLower(m.indication_name_de))

\* a fuzzy layer that takes the best entry above 0.90 without the gap and the
\* prefix test
Layer4Outcomes_no_gap(u) ==
    {<<m.code_value, "FUZZY_MATCHED">> :
        m \in {x \in map_by_dossier(u.bag_dossier_no) :
                  /\ FracGe(FuzzyRatio(u, x), <<90, 100>>)
                  /\ \A o \in map_by_dossier(u.bag_dossier_no) :
                         FracGe(FuzzyRatio(u, x), FuzzyRatio(u, o))}}

\* Layer 4: the best entry of the dossier is one with the highest ratio (the first
\* of them in list order), second_best the highest ratio among the others.
Layer4Outcomes(u) ==
    LET seg_norm == CharsOf(NormLower(u.indication_name_de))
        scored == {<<m, FuzzyRatio(u, m)>> : m \in map_by_dossier(u.bag_dossier_no)}
        accepted(e) ==
            LET best_ratio == e[2]
                best_map_norm == CharsOf(NormLower(e[1].indication_name_de))
                is_prefix == StartsWith(best_map_norm, seg_norm)
                             \/ StartsWith(seg_norm, best_map_norm)
                gap_ok == \A o \in scored \ {e} : FracGapOk(best_ratio, o[2])
                prefix_ok == is_prefix /\ FracGe(best_ratio, <<92, 100>>)
            IN /\ \A o \in scored : FracGe(best_ratio, o[2])
               /\ FracGt(best_ratio, <<0, 1>>)
               /\ FracGe(best_ratio, <<90, 100>>)
               /\ gap_ok \/ prefix_ok
    IN {<<e[1].code_value, "FUZZY_MATCHED">> : e \in {x \in scored : accepted(x)}}

\* Layer 5: the only segment of a limitation takes the only code of the limitation
\* ("code_value NOT LIKE 'FALLBACK%'" excludes no code: a fallback code reads
\* "<dossier>.xx").
Layer5Outcomes(u) ==
    LET codes == {r \in indication_code : r.limitation_id = u.limitation_id}
    IN IF Cardinality(SegmentsOf(u.limitation_id)) = 1 /\ Cardinality(codes) = 1
       THEN {<<(CHOOSE r \in codes : TRUE).code_value, "SINGLE_SEGMENT_CODE">>}
       ELSE {}

\* code point of a character that occurs in a code
CharRank(c) ==
    CASE c = "." -> 46
      [] c = "0" -> 48
      [] c = "1" -> 49
      [] c = "2" -> 50
      [] c = "X" -> 88
      [] c = "x" -> 120
      [] OTHER -> 0

RECURSIVE CharsLess(_, _)
CharsLess(a, b) ==
    IF b = <<>> THEN FALSE
    ELSE IF a = <<>> THEN TRUE
    ELSE IF Head(a) = Head(b) THEN CharsLess(Tail(a), Tail(b))
    ELSE CharRank(Head(a)) < CharRank(Head(b))

\* ORDER BY code_value
CodeLess(a, b) == CharsLess(CharsOf(a), CharsOf(b))

\* Layer 6 for one limitation: the i-th unmatched segment in segment order takes
\* the i-th code in code order, when all segments of the limitation are unmatched
\* and there are as many codes as segments.
Layer6Pairs(lim_id) ==
    LET segs == {u \in unmatched : u.limitation_id = lim_id /\ u.segment_id \notin matched_ids}
        codes == {r.code_value : r \in {x \in indication_code : x.limitation_id = lim_id}}
        order(u) == (CHOOSE s \in limitation_indication_segment :
                         s.segment_id = u.segment_id).segment_order
        pos(u) == Cardinality({v \in segs : order(v) < order(u)})
        rank(c) == Cardinality({d \in codes : CodeLess(d, c)})
    IN IF /\ Cardinality(segs) >= 2
          /\ Cardinality(SegmentsOf(lim_id)) = Cardinality(segs)
          /\ Cardinality(codes) = Cardinality(segs)
       THEN {<<u.segment_id, CHOOSE c \in codes : rank(c) = pos(u)>> : u \in segs}
       ELSE {}

RECURSIVE SetOrdinal(_, _)
SetOrdinal(tbl, pairs) ==
    IF pairs = {} THEN tbl
    ELSE LET pr == CHOOSE x \in pairs : TRUE
         IN SetOrdinal(SetMatched(tbl, pr[1], pr[2], "ORDINAL_POSITION"), pairs \ {pr})

-----------------------------------------------------------------------------
(* extract_limitations.py: documents *)

ELim(code, type, de, ics) ==
    [LimitationCode |-> code, LimitationType |-> type, DescriptionDe |-> de,
     DescriptionFr |-> Null, DescriptionIt |-> Null,
     IndicationsCodes |-> ics, PmIndications |-> <<>>]

EPrep(no5, packs, lims, itcodes) ==
    [SwissmedicNo5 |-> no5, Packs |-> packs, Limitations |-> lims, ItCodes |-> itcodes]

Bold(name) == <<"<b>">> \o name \o <<"</b>">>

\* "Indikationscode: <code>"
TextCode(code) == <<"Indikationscode", ":", " ">> \o code

Psoriasis == <<"Psoriasis">>

Arthritis == <<"Arthritis">>

Myelom == <<"Myelom">>

G3 == <<"g3">>

\* one header, structured code of dossier 11111
ELA == ELim(<<"LA">>, "DIA", Bold(Psoriasis) \o <<"x">>, <<Code(D1, <<"01">>)>>)

\* the same header in another text, structured code of dossier 22222
ELA2 == ELim(<<"LA">>, "DIA", Bold(Psoriasis) \o <<"y">>, <<Code(D2, <<"01">>)>>)

\* two headers, no code: FALLBACK_XX in the dossier it is found under
ELAB == ELim(<<"LAB">>, "DIA",
             Bold(Psoriasis) \o <<"x", "<br>">> \o Bold(Arthritis) \o <<"y">>, <<>>)

\* a header that differs from a mapped name in case and a trailing colon
ELN == ELim(<<"LN">>, "DIA", Bold(<<"psoriasis", ":">>) \o <<"x">>, <<>>)

\* a header with a code embedded in the name
ELE == ELim(<<"LE">>, "DIA", Bold(Myelom \o <<" ">> \o Code(D1, <<"02">>)) \o <<"x">>, <<>>)

\* one header and one code written in the text
EL5 == ELim(<<"L5">>, "DIA", Bold(Myelom) \o <<"x", " ">> \o TextCode(Code(D1, <<"02">>)), <<>>)

\* two headers and two codes written in the text, a structural header between them
EL6 == ELim(<<"L6">>, "DIA",
            Bold(Myelom) \o <<" ">> \o TextCode(Code(D1, <<"02">>)) \o <<"<br>">>
            \o Bold(<<"UND">>) \o <<"<br>", "<br>">>
            \o Bold(Arthritis) \o <<" ">> \o TextCode(Code(D1, <<"01">>)), <<>>)

\* a generic brand in a mapped name, the original brand in an unmapped one
ELBM == ELim(<<"LBM">>, "DIA", Bold(<<"Lenalidomid", " ", "Spirig">>) \o <<"x">>,
             <<Code(D1, <<"01">>)>>)

ELBS == ELim(<<"LBS">>, "DIA", Bold(<<"REVLIMID">>) \o <<"x">>, <<>>)

\* a header that is already the canonical form of the brand
ELBC == ELim(<<"LBC">>, "DIA", Bold(<<"LENALIDOMID">>) \o <<"x">>, <<>>)

\* the two wordings of a combination therapy
ELKM == ELim(<<"LKM">>, "DIA",
             Bold(<<"REVLIMID", " ", "in", " ", "Kombination", " ", "mit", " ",
                    "Dexamethason">>) \o <<"x">>,
             <<Code(D1, <<"02">>)>>)

ELKS == ELim(<<"LKS">>, "DIA",
             Bold(<<"Kombination", " ", "REVLIMID", ",", " ", "Dexamethason">>) \o <<"x">>,
             <<>>)

\* two headers under one structured code: a piped name in the mapping table
ELPP == ELim(<<"LPP">>, "DIA",
             Bold(Psoriasis) \o <<"x", "<br>">> \o Bold(Arthritis) \o <<"y">>,
             <<Code(D1, <<"02">>)>>)

\* a mapped name and a near miss of it
ELFM == ELim(<<"LFM">>, "DIA", Bold(<<"Plaque", " ", "Psoriasis">>) \o <<"x">>,
             <<Code(D1, <<"01">>)>>)

ELFS == ELim(<<"LFS">>, "DIA", Bold(<<"Plaque", "-", "Psoriasis">>) \o <<"x">>, <<>>)

\* a block without LimitationCode and a non-DIA block
ELC == ELim(Null, "COM", Bold(Psoriasis) \o <<"x">>, <<>>)

\* pack-level blocks under two packs of different dossiers
EDoc1 == <<EPrep(P1, <<Pack(G1, D1, <<10>>, <<ELA, ELAB>>),
                       Pack(G2, D2, <<10>>, <<ELA2, ELAB>>)>>, <<>>, <<>>)>>

\* preparation-level blocks, first pack of dossier 11111
EDoc2 == <<EPrep(P1, <<Pack(G1, D1, <<10>>, <<>>)>>, <<ELA, ELAB>>, <<ELC>>)>>

\* the same preparation, first pack of dossier 22222
EDoc3 == <<EPrep(P1, <<Pack(G2, D2, <<10>>, <<>>), Pack(G1, D1, <<10>>, <<>>)>>,
                 <<ELA2, ELAB>>, <<>>)>>

EDoc4 == <<EPrep(P2, <<Pack(G3, D1, <<10>>, <<>>)>>, <<ELA, ELN, ELE, EL5, EL6>>, <<>>)>>

EDoc5 == <<EPrep(P2, <<Pack(G3, D1, <<10>>, <<>>)>>, <<ELBM, ELBS, ELBC, ELKM, ELKS>>, <<>>)>>

EDoc6 == <<EPrep(P2, <<Pack(G3, D2, <<10>>, <<>>)>>, <<ELC>>, <<>>),
           EPrep(P1, <<Pack(G1, D1, <<10>>, <<>>)>>, <<ELPP, ELFM, ELFS>>, <<>>)>>

\* a block whose paragraph-level header exists in French only, and one whose
\* German body has a bold span in mid-paragraph and no header
ELFR == [ELim(<<"LFR">>, "DIA", <<"x">>, <<>>)
            EXCEPT !.DescriptionFr = Bold(Psoriasis) \o <<"x">>]

ELFI == [ELim(<<"LFI">>, "DIA", <<"y">> \o Bold(Myelom) \o <<"x">>, <<>>)
            EXCEPT !.DescriptionFr = Bold(Arthritis) \o <<"x">>]

EDoc7 == <<EPrep(P1, <<Pack(G1, D1, <<10>>, <<>>)>>, <<ELFR, ELFI>>, <<>>)>>

\* a DIA block with a header and a structured code under an ItCode element
EDoc8 == <<EPrep(P1, <<Pack(G1, D1, <<10>>, <<>>)>>, <<>>, <<ELFM>>)>>

\* two headers and two codes of different dossiers written in the text
EL6X == ELim(<<"L6X">>, "DIA",
             Bold(Myelom) \o <<" ">> \o TextCode(Code(D1, <<"02">>)) \o <<"<br>">>
             \o Bold(Arthritis) \o <<" ">> \o TextCode(Code(D2, <<"01">>)), <<>>)

EDoc9 == <<EPrep(P2, <<Pack(G3, D1, <<10>>, <<>>)>>, <<EL6X>>, <<>>)>>

\* a second name of the dossier as close to "Plaque-Psoriasis" as the first one,
\* under another code
ELFT == ELim(<<"LFT">>, "DIA", Bold(<<"Plaque", ",", "Psoriasis">>) \o <<"x">>,
             <<Code(D1, <<"02">>)>>)

EDoc10 == <<EPrep(P1, <<Pack(G1, D1, <<10>>, <<>>)>>, <<ELFM, ELFT, ELFS>>, <<>>)>>

\* a header with a code embedded in the name, and another code in the structured
\* list of the block
ELEX == ELim(<<"LEX">>, "DIA", Bold(Myelom \o <<" ">> \o Code(D1, <<"02">>)) \o <<"x">>,
             <<Code(D1, <<"01">>)>>)

EDoc11 == <<EPrep(P1, <<Pack(G1, D1, <<10>>, <<>>)>>, <<ELEX>>, <<>>)>>

EDocuments ==
    {EDoc1, EDoc2, EDoc3, EDoc4, EDoc5, EDoc6, EDoc7, EDoc8, EDoc9, EDoc10, EDoc11}

-----------------------------------------------------------------------------
(* extract_limitations.py: main() *)

CurrentEDB ==
    [pack |-> pack, limitation |-> limitation,
     indication_code |-> [rows |-> indication_code, seq |-> ic_seq],
     limitation_text |-> limitation_text, limitation_code_link |-> limitation_code_link,
     prep_map |-> prep_map]

\* the tables of build_sku_indication_db.py take no part in this program
varsNotEl == <<sku, prep_code_link, sku_indication, last_doc, observed>>

InitE ==
    /\ sku = {}
    /\ limitation_text = {}
    /\ prep_code_link = {}
    /\ sku_indication = {}
    /\ prep_map = <<>>
    /\ extract_id = 0
    /\ pc = "ingest"
    /\ op = "create_database"
    /\ last_doc = <<>>
    /\ observed = {}
    /\ InitE0

\* one iteration of the file loop of main(): parse_file and commit
\* conn.commit() after parse_file: the tables of db become the store
CommitEDB(db) ==
    /\ pack' = db.pack
    /\ limitation' = db.limitation
    /\ indication_code' = db.indication_code.rows
    /\ ic_seq' = db.indication_code.seq
    /\ limitation_text' = db.limitation_text
    /\ limitation_code_link' = db.limitation_code_link
    /\ prep_map' = db.prep_map

ElIngestFile(doc) ==
    /\ pc = "ingest"
    /\ extract_id < MaxFiles
    /\ CommitEDB(el_parse_file(CurrentEDB, extract_id + 1, doc))
    /\ extract_id' = extract_id + 1
    /\ op' = "parse_file"
    /\ UNCHANGED <<pc, name_map, limitation_indication_segment, todo, unmatched, matched_ids>>
    /\ UNCHANGED varsNotEl
    /\ UNCHANGED <<varsLog, varsMap, varsLLM>>

\* build_name_code_map: INSERT OR IGNORE of the candidates in the order the SELECT
\* yields them; of the candidates with the same (name, code) one survives
BuildNameCodeMap ==
    /\ pc = "ingest"
    /\ \E m \in SUBSET NameMapCandidates :
          /\ \A a \in m : \A b \in m : SameMapKey(a, b) => a = b
          /\ \A c \in NameMapCandidates : \E a \in m : SameMapKey(a, c)
          /\ name_map' = m
    /\ pc' = "retroactive_code_assignment"
    /\ op' = "build_name_code_map"
    /\ UNCHANGED <<pack, limitation, indication_code, ic_seq, limitation_code_link,
                   limitation_indication_segment, todo, unmatched, matched_ids>>
    /\ UNCHANGED <<limitation_text, prep_map, extract_id>>
    /\ UNCHANGED varsNotEl
    /\ UNCHANGED <<varsLog, varsMap, varsLLM>>

\* retroactive_code_assignment: the join is fetched before the loop
RetroCodeFetch ==
    /\ pc = "retroactive_code_assignment"
    /\ todo' = RetroCodeRows
    /\ pc' = IF RetroCodeRows = {} THEN "build_indication_segments"
             ELSE "retroactive_code_assignment_loop"
    /\ op' = "retroactive_code_assignment"
    /\ UNCHANGED <<pack, limitation, indication_code, ic_seq, limitation_code_link,
                   name_map, limitation_indication_segment, unmatched, matched_ids>>
    /\ UNCHANGED <<limitation_text, prep_map, extract_id>>
    /\ UNCHANGED varsNotEl
    /\ UNCHANGED <<varsLog, varsMap, varsLLM>>

\* one iteration of its loop, in the order the join yields the rows
RetroCodeRow ==
    /\ pc = "retroactive_code_assignment_loop"
    /\ \E row \in todo :
          /\ indication_code' = retro_code_row(indication_code, row)
          /\ todo' = todo \ {row}
          /\ pc' = IF todo = {row} THEN "build_indication_segments" ELSE pc
    /\ op' = "retroactive_code_assignment"
    /\ UNCHANGED <<pack, limitation, ic_seq, limitation_code_link,
                   name_map, limitation_indication_segment, unmatched, matched_ids>>
    /\ UNCHANGED <<limitation_text, prep_map, extract_id>>
    /\ UNCHANGED varsNotEl
    /\ UNCHANGED <<varsLog, varsMap, varsLLM>>

BuildIndicationSegments ==
    /\ pc = "build_indication_segments"
    /\ limitation_indication_segment' =
           InsertSegments(limitation_indication_segment, SegmentedLimitations)
    /\ pc' = "retroactive_segment_mapping"
    /\ op' = "build_indication_segments"
    /\ UNCHANGED <<pack, limitation, indication_code, ic_seq, limitation_code_link,
                   name_map, todo, unmatched, matched_ids>>
    /\ UNCHANGED <<limitation_text, prep_map, extract_id>>
    /\ UNCHANGED varsNotEl
    /\ UNCHANGED <<varsLog, varsMap, varsLLM>>

\* retroactive_segment_mapping: the FALLBACK_XX rows are fetched before the loop
RetroSegFetch ==
    /\ pc = "retroactive_segment_mapping"
    /\ todo' = FallbackRows
    /\ pc' = IF FallbackRows = {} THEN "annotate_segments" ELSE "retroactive_segment_mapping_loop"
    /\ op' = "retroactive_segment_mapping"
    /\ UNCHANGED <<pack, limitation, indication_code, ic_seq, limitation_code_link,
                   name_map, limitation_indication_segment, unmatched, matched_ids>>
    /\ UNCHANGED <<limitation_text, prep_map, extract_id>>
    /\ UNCHANGED varsNotEl
    /\ UNCHANGED <<varsLog, varsMap, varsLLM>>

\* one iteration of its loop over fallback_rows: every segment of the limitation
\* whose name is mapped in the dossier of the row is annotated (fetchone takes one
\* of the mapping rows), the codes are inserted and the fallback row is deleted
RetroSegRow ==
    /\ pc = "retroactive_segment_mapping_loop"
    /\ \E row \in todo :
          LET hits == MappableSegments(row)
              ids == {s.segment_id : s \in hits}
          IN /\ \E code_of \in [ids -> {m.code_value : m \in name_map}] :
                   /\ \A s \in hits :
                         \E m \in SegmentMappings(s, row.bag_dossier_no) :
                             code_of[s.segment_id] = m.code_value
                   /\ LET ic == InsertSegmentMapped(
                                    [rows |-> indication_code, seq |-> ic_seq],
                                    row, hits, code_of)
                      IN /\ indication_code' =
                                IF hits = {} THEN indication_code
                                ELSE {r \in ic.rows :
                                         r.indication_code_id # row.indication_code_id}
                         /\ ic_seq' = ic.seq
                   /\ limitation_indication_segment' =
                          AnnotateSegments(limitation_indication_segment, hits, code_of,
                                           "SEGMENT_MAPPED")
             /\ todo' = todo \ {row}
             /\ pc' = IF todo = {row} THEN "annotate_segments" ELSE pc
    /\ op' = "retroactive_segment_mapping"
    /\ UNCHANGED <<pack, limitation, limitation_code_link, name_map, unmatched, matched_ids>>
    /\ UNCHANGED <<limitation_text, prep_map, extract_id>>
    /\ UNCHANGED varsNotEl
    /\ UNCHANGED <<varsLog, varsMap, varsLLM>>

\* _annotate_segments_with_existing_codes: the segments still NULL are fetched
AnnotateFetch ==
    /\ pc = "annotate_segments"
    /\ LET rows == {s.segment_id : s \in {x \in limitation_indication_segment :
                        x.matched_code_value = Null /\ Truthy(x.indication_name_de)}}
       IN /\ todo' = rows
          /\ pc' = IF rows = {} THEN "similarity_segment_mapping" ELSE "annotate_segments_loop"
    /\ op' = "annotate_segments"
    /\ UNCHANGED <<pack, limitation, indication_code, ic_seq, limitation_code_link,
                   name_map, limitation_indication_segment, unmatched, matched_ids>>
    /\ UNCHANGED <<limitation_text, prep_map, extract_id>>
    /\ UNCHANGED varsNotEl
    /\ UNCHANGED <<varsLog, varsMap, varsLLM>>

\* one iteration of its loop
AnnotateRow ==
    /\ pc = "annotate_segments_loop"
    /\ LET seg_id == CHOOSE x \in todo : \A y \in todo : x <= y
           s == CHOOSE x \in limitation_indication_segment : x.segment_id = seg_id
           found == IF _is_structural_name(s.indication_name_de) THEN {}
                    ELSE ExistingCodeMappings(s)
       IN /\ IF found = {}
             THEN UNCHANGED limitation_indication_segment
             ELSE \E m \in found :
                     limitation_indication_segment' =
                         SetMatched(limitation_indication_segment, seg_id,
                                    m.code_value, "EXISTING")
          /\ todo' = todo \ {seg_id}
          /\ pc' = IF todo = {seg_id} THEN "similarity_segment_mapping" ELSE pc
    /\ op' = "annotate_segments"
    /\ UNCHANGED <<pack, limitation, indication_code, ic_seq, limitation_code_link,
                   name_map, unmatched, matched_ids>>
    /\ UNCHANGED <<limitation_text, prep_map, extract_id>>
    /\ UNCHANGED varsNotEl
    /\ UNCHANGED <<varsLog, varsMap, varsLLM>>

\* the preparations with unmatched segments and the dossiers of their packs
UnmatchedSegments ==
    {s \in limitation_indication_segment :
        s.matched_code_value = Null /\ Truthy(s.indication_name_de)}

PackDossiers(preparation_id) ==
    IF \E p \in pack : p.preparation_id = preparation_id
    THEN {p.bag_dossier_no : p \in {x \in pack : x.preparation_id = preparation_id}}
    ELSE {Null}

\* similarity_segment_mapping up to the first layer: the unmatched segments with
\* the dossier of one pack of their preparation (LIMIT 1: any of its packs)
SimFetch ==
    /\ pc = "similarity_segment_mapping"
    /\ LET preps == {s.preparation_id : s \in UnmatchedSegments}
       IN \E bag_of \in [preps -> {p.bag_dossier_no : p \in pack} \cup {Null}] :
             /\ \A p \in preps : bag_of[p] \in PackDossiers(p)
             /\ unmatched' = {[segment_id |-> s.segment_id,
                               limitation_id |-> s.limitation_id,
                               indication_name_de |-> s.indication_name_de,
                               bag_dossier_no |-> bag_of[s.preparation_id]] :
                                  s \in UnmatchedSegments}
    /\ matched_ids' = {}
    /\ match_log' = {}
    /\ todo' = {s.segment_id : s \in UnmatchedSegments}
    /\ pc' = IF UnmatchedSegments = {} THEN "store_match_log" ELSE "layer_1"
    /\ op' = "similarity_segment_mapping"
    /\ UNCHANGED <<pack, limitation, indication_code, ic_seq, limitation_code_link,
                   name_map, limitation_indication_segment>>
    /\ UNCHANGED <<limitation_text, prep_map, extract_id>>
    /\ UNCHANGED varsNotEl
    /\ UNCHANGED <<similarity_match_log, varsMap, varsLLM>>

UnmatchedRow(seg_id) == CHOOSE u \in unmatched : u.segment_id = seg_id

\* best_ratio of layer 4: the highest ratio among the entries of the dossier
BestRatio(u) ==
    LET scored == {FuzzyRatio(u, m) : m \in map_by_dossier(u.bag_dossier_no)}
    IN IF scored = {} THEN <<0, 1>>
       ELSE CHOOSE r \in scored : \A q \in scored : FracGe(r, q)

\* the score a layer appends to match_log with a match, as a fraction
ScoreOf(source, best_ratio) ==
    CASE source \in {"EMBEDDED_IN_NAME", "NORMALIZED_MATCH", "SINGLE_SEGMENT_CODE"} -> <<100, 100>>
      [] source \in {"NORMALIZED_CROSS", "PIPE_PART_MATCH"} -> <<95, 100>>
      [] source \in {"PIPE_PART_CROSS", "KOMBI_NORMALIZED", "BRAND_NORMALIZED"} -> <<90, 100>>
      [] source \in {"KOMBI_CROSS", "BRAND_CROSS"} -> <<85, 100>>
      [] source = "ORDINAL_POSITION" -> <<80, 100>>
      [] source = "FUZZY_MATCHED" -> best_ratio

\* match_log.append((seg_id, name_de, code, match_type, matched_to, score))
LogEntry(u, code, source, best_ratio) ==
    [segment_id |-> u.segment_id, segment_name |-> u.indication_name_de,
     matched_code |-> code, match_type |-> source, score |-> ScoreOf(source, best_ratio)]

\* One iteration of the loop of a layer over `unmatched`: the segment is skipped
\* when it is in matched_ids (check = TRUE), else one of the outcomes is written.
\* After the last iteration the next layer starts over the whole list.
LayerStep(seg_id, check, outcomes, best_ratio, next_pc, next_todo) ==
    /\ IF (check /\ seg_id \in matched_ids) \/ outcomes = {}
       THEN UNCHANGED <<limitation_indication_segment, matched_ids, match_log>>
       ELSE /\ \E o \in outcomes :
                  /\ limitation_indication_segment' =
                         SetMatched(limitation_indication_segment, seg_id, o[1], o[2])
                  /\ match_log' =
                         match_log \cup {LogEntry(UnmatchedRow(seg_id), o[1], o[2], best_ratio)}
            /\ matched_ids' = matched_ids \cup {seg_id}
    /\ todo' = IF todo = {seg_id} THEN next_todo ELSE todo \ {seg_id}
    /\ pc' = IF todo = {seg_id} THEN next_pc ELSE pc
    /\ UNCHANGED <<pack, limitation, indication_code, ic_seq, limitation_code_link,
                   name_map, unmatched>>
    /\ UNCHANGED <<limitation_text, prep_map, extract_id>>
    /\ UNCHANGED varsNotEl
    /\ UNCHANGED <<similarity_match_log, varsMap, varsLLM>>

AllUnmatchedIds == {u.segment_id : u \in unmatched}

NextSegment == CHOOSE x \in todo : \A y \in todo : x <= y

\* Layer 1: embedded code extraction (no test of matched_ids, which is empty)
Layer1 ==
    /\ pc = "layer_1"
    /\ LayerStep(NextSegment, FALSE, Layer1Outcomes(UnmatchedRow(NextSegment)), <<0, 1>>,
                 "layer_2", AllUnmatchedIds)
    /\ op' = "layer_1"

\* Layer 2: text normalization
Layer2 ==
    /\ pc = "layer_2"
    /\ LayerStep(NextSegment, TRUE, Layer2Outcomes(UnmatchedRow(NextSegment)), <<0, 1>>,
                 "layer_2c", AllUnmatchedIds)
    /\ op' = "layer_2"

\* Layer 2c: pipe-part and Kombination matching
Layer2c ==
    /\ pc = "layer_2c"
    /\ LayerStep(NextSegment, TRUE, Layer2cOutcomes(UnmatchedRow(NextSegment)), <<0, 1>>,
                 "layer_3", AllUnmatchedIds)
    /\ op' = "layer_2c"

\* Layer 3: brand name normalization
Layer3 ==
    /\ pc = "layer_3"
    /\ LayerStep(NextSegment, TRUE, Layer3Outcomes(UnmatchedRow(NextSegment)), <<0, 1>>,
                 "layer_4", AllUnmatchedIds)
    /\ op' = "layer_3"

\* Layer 4: fuzzy SequenceMatcher, same dossier only
Layer4 ==
    /\ pc = "layer_4"
    /\ LayerStep(NextSegment, TRUE, Layer4Outcomes(UnmatchedRow(NextSegment)),
                 BestRatio(UnmatchedRow(NextSegment)),
                 "layer_5", AllUnmatchedIds)
    /\ op' = "layer_4"

\* the keys of unmatched_by_lim after this iteration of layer 5
UnmatchedLims(ids) ==
    {u.limitation_id : u \in {x \in unmatched : x.segment_id \notin ids}}

\* Layer 5: single-segment-single-code deduction; after its last iteration
\* unmatched_by_lim is built from the segments not in matched_ids
Layer5 ==
    /\ pc = "layer_5"
    /\ LET seg_id == NextSegment
           outcomes == Layer5Outcomes(UnmatchedRow(seg_id))
           ids == IF seg_id \in matched_ids \/ outcomes = {} THEN matched_ids
                  ELSE matched_ids \cup {seg_id}
       IN LayerStep(seg_id, TRUE, outcomes, <<0, 1>>,
                    IF UnmatchedLims(ids) = {} THEN "store_match_log" ELSE "layer_6",
                    UnmatchedLims(ids))
    /\ op' = "layer_5"

\* Layer 6: positional ordinal matching, one limitation of unmatched_by_lim
Layer6 ==
    /\ pc = "layer_6"
    /\ LET lim_id == CHOOSE x \in todo : \A y \in todo : x <= y
           pairs == Layer6Pairs(lim_id)
       IN /\ limitation_indication_segment' = SetOrdinal(limitation_indication_segment, pairs)
          /\ matched_ids' = matched_ids \cup {pr[1] : pr \in pairs}
          /\ match_log' = match_log \cup
                 {LogEntry(UnmatchedRow(pr[1]), pr[2], "ORDINAL_POSITION", <<0, 1>>) :
                     pr \in pairs}
          /\ todo' = todo \ {lim_id}
          /\ pc' = IF todo = {lim_id} THEN "store_match_log" ELSE pc
    /\ op' = "layer_6"
    /\ UNCHANGED <<pack, limitation, indication_code, ic_seq, limitation_code_link,
                   name_map, unmatched>>
    /\ UNCHANGED <<limitation_text, prep_map, extract_id>>
    /\ UNCHANGED varsNotEl
    /\ UNCHANGED <<similarity_match_log, varsMap, varsLLM>>

\* the end of similarity_segment_mapping: DELETE FROM _similarity_match_log and
\* executemany(INSERT ..., match_log)
StoreMatchLog ==
    /\ pc = "store_match_log"
    /\ similarity_match_log' = match_log
    /\ pc' = "done"
    /\ op' = "store_match_log"
    /\ UNCHANGED <<pack, limitation, indication_code, ic_seq, limitation_code_link,
                   name_map, limitation_indication_segment, todo, unmatched, matched_ids,
                   match_log>>
    /\ UNCHANGED <<limitation_text, prep_map, extract_id>>
    /\ UNCHANGED varsNotEl
    /\ UNCHANGED <<varsMap, varsLLM>>

\* similarity_segment_mapping(conn) is called once more on the store it left
SimilarityAgain ==
    /\ pc = "done"
    /\ pc' = "similarity_segment_mapping"
    /\ op' = "similarity_segment_mapping_again"
    /\ UNCHANGED <<pack, limitation, indication_code, ic_seq, limitation_code_link,
                   name_map, limitation_indication_segment, todo, unmatched, matched_ids>>
    /\ UNCHANGED <<limitation_text, prep_map, extract_id>>
    /\ UNCHANGED varsNotEl
    /\ UNCHANGED <<varsLog, varsMap, varsLLM>>

NextE ==
    \/ \E doc \in EDocuments : ElIngestFile(doc)
    \/ BuildNameCodeMap
    \/ RetroCodeFetch
    \/ RetroCodeRow
    \/ BuildIndicationSegments
    \/ RetroSegFetch
    \/ RetroSegRow
    \/ AnnotateFetch
    \/ AnnotateRow
    \/ SimFetch
    \/ Layer1
    \/ Layer2
    \/ Layer2c
    \/ Layer3
    \/ Layer4
    \/ Layer5
    \/ Layer6
    \/ StoreMatchLog
    \/ SimilarityAgain

SpecE == InitE /\ [][NextE]_vars

-----------------------------------------------------------------------------
(* Properties of the versioned store and of the fan-out *)

Versioned == sku \cup limitation_text \cup prep_code_link

\* C1: after any sequence of snapshots ingested in increasing sequence order, every
\* sku row, limitation_text row and preparation-level code link has
\* first_seen_extract <= last_seen_extract.
C1_FirstSeenLeLastSeen ==
    /\ \A r \in sku : r.first_seen_extract <= r.last_seen_extract
    /\ \A r \in limitation_text : r.first_seen_extract <= r.last_seen_extract
    /\ \A r \in prep_code_link : r.first_seen_extract <= r.last_seen_extract

\* a run in which a pack, a text and a code link were each seen in two snapshots
C1_Witness ==
    /\ extract_id >= 2
    /\ \E r \in sku : r.first_seen_extract < r.last_seen_extract
    /\ \E r \in limitation_text : r.first_seen_extract < r.last_seen_extract
    /\ \E r \in prep_code_link : r.first_seen_extract < r.last_seen_extract

\* the keys and intervals of the three versioned tables
Intervals ==
    {<<"sku", r.gtin, r.first_seen_extract, r.last_seen_extract>> : r \in sku}
    \cup {<<"limitation_text", r.content_hash, r.first_seen_extract, r.last_seen_extract>> :
             r \in limitation_text}
    \cup {<<"_prep_code_link", <<r.preparation_id, r.text_id, r.indication_code>>,
            r.first_seen_extract, r.last_seen_extract>> : r \in prep_code_link}

\* C2: ingesting the same document again under the same sequence number adds no
\* sku, limitation_text or code link row and changes no first_seen / last_seen.
C2_ReingestIdempotent ==
    [][op' = "reingest" =>
          /\ Intervals' = Intervals
          /\ Cardinality(sku') = Cardinality(sku)
          /\ Cardinality(limitation_text') = Cardinality(limitation_text)
          /\ Cardinality(prep_code_link') = Cardinality(prep_code_link)]_vars

\* a document with packs, texts and codes was ingested twice in a row
C2_Witness ==
    /\ op = "reingest"
    /\ extract_id >= 2
    /\ sku # {} /\ limitation_text # {} /\ prep_code_link # {}
    /\ \E r \in sku : r.first_seen_extract < r.last_seen_extract

\* C3: an upsert of a key that already exists (GTIN, content hash, association,
\* pack GTIN) leaves first_seen_extract as written when the row was created.
C3_FirstSeenKept ==
    [][/\ \A r \in sku : \A q \in sku' :
             q.gtin = r.gtin => q.first_seen_extract = r.first_seen_extract
       /\ \A r \in limitation_text : \A q \in limitation_text' :
             q.content_hash = r.content_hash => q.first_seen_extract = r.first_seen_extract
       /\ \A r \in prep_code_link : \A q \in prep_code_link' :
             (q.preparation_id = r.preparation_id /\ q.text_id = r.text_id
              /\ q.indication_code = r.indication_code)
             => q.first_seen_extract = r.first_seen_extract
       /\ \A r \in pack : \A q \in pack' :
             q.gtin = r.gtin => q.first_seen_extract = r.first_seen_extract]_vars

\* an existing row was upserted with another sequence number and another price
C3_Witness ==
    \/ op = "upsert_sku" /\ \E r \in sku :
          r.first_seen_extract # r.last_seen_extract /\ r.last_seen_extract = extract_id
    \/ op = "upsert_pack" /\ \E r \in pack :
          r.first_seen_extract # r.last_seen_extract /\ r.last_seen_extract = extract_id

TextOf(r) == <<r.description_de, r.description_fr, r.description_it>>

\* C5: blocks with identical three-language text share one limitation_text row:
\* no two rows hold the same (de, fr, it) and no text is stored under two rows.
C5_OneRowPerText ==
    /\ \A r \in limitation_text : \A q \in limitation_text : TextOf(r) = TextOf(q) => r = q
    /\ Cardinality(limitation_text) <= Cardinality(observed)

\* the same text was observed under two preparations and in two snapshots
C5_Witness ==
    /\ \E r \in limitation_text : r.first_seen_extract < r.last_seen_extract
    /\ \E a \in prep_code_link : \E b \in prep_code_link :
          a.text_id = b.text_id /\ a.preparation_id # b.preparation_id

\* C6 as stated: blocks whose texts differ in any language are stored as distinct
\* rows, so every observed text triple is the text of a row of its own.
C6_DistinctTextsDistinctRows ==
    /\ \A t \in observed : \E r \in limitation_text : TextOf(r) = t
    /\ Cardinality(limitation_text) = Cardinality(observed)

\* C7: no sku_indication row has an empty validity interval.
C7_NoEmptyInterval ==
    \A r \in sku_indication : r.valid_from <= r.valid_to

\* the fan-out ran over a pack and an association that do not overlap, and created
\* links for those that do
C7_Witness ==
    /\ pc = "fanned_out"
    /\ sku_indication # {}
    /\ \E s \in sku : \A r \in sku_indication : r.gtin # s.gtin
    /\ \E r \in sku_indication : r.valid_from < r.valid_to

\* the snapshots in which both the pack and the association were current
Common(s, link) ==
    {n \in 1..(MaxExtract + 1) :
        /\ s.first_seen_extract <= n /\ n <= s.last_seen_extract
        /\ link.first_seen_extract <= n /\ n <= link.last_seen_extract}

\* C8: the fan-out creates a link for a pack and an association of its preparation
\* only when their intervals have a snapshot in common, creates exactly one when
\* they do (and the PACK-level dossier test passes), and gives it the release
\* dates of the first and the last common snapshot.
C8_LinkIsIntersection ==
    [][op' = "fanout_to_sku" =>
          \A s \in sku : \A link \in prep_code_link :
              s.preparation_id = link.preparation_id =>
                 LET rows == {r \in sku_indication' :
                                 /\ r.gtin = s.gtin
                                 /\ r.indication_code = link.indication_code
                                 /\ r.text_id = link.text_id}
                 IN /\ Common(s, link) = {} => rows = {}
                    /\ (Common(s, link) # {} /\ link.limitation_level # "PACK")
                          => Cardinality(rows) = 1
                    /\ \A r \in rows :
                          /\ \A n \in Common(s, link) :
                                r.valid_from <= ReleaseDateOf(n) /\ ReleaseDateOf(n) <= r.valid_to
                          /\ \E n \in Common(s, link) : r.valid_from = ReleaseDateOf(n)
                          /\ \E n \in Common(s, link) : r.valid_to = ReleaseDateOf(n)]_vars

\* a pack seen in snapshots 1..3 and an association seen in snapshot 2 only gave one
\* link valid from 2 to 2, and a pack of the same preparation last seen in
\* snapshot 1 got no link to that association
C8_Witness ==
    /\ op = "fanout_to_sku"
    /\ \E s \in sku : \E r \in sku_indication :
          /\ s.first_seen_extract = 1 /\ s.last_seen_extract = 3
          /\ r.gtin = s.gtin
          /\ r.valid_from = ReleaseDateOf(2) /\ r.valid_to = ReleaseDateOf(2)
          /\ \E s2 \in sku :
                /\ s2.preparation_id = s.preparation_id
                /\ s2.last_seen_extract = 1
                /\ \A q \in sku_indication :
                      ~(q.gtin = s2.gtin /\ q.indication_code = r.indication_code
                        /\ q.text_id = r.text_id)

\* C9: sku_indication holds at most one row per (gtin, indication_code, text_id), and
\* an insert of a triple that is already there leaves the table as it was.
C9_OneRowPerTriple ==
    [][/\ \A r \in sku_indication' : \A q \in sku_indication' : SameTriple(r, q) => r = q
       /\ \A r \in sku_indication : r \in sku_indication']_vars

\* an insert hit an existing triple with other values
C9_Witness ==
    /\ op = "insert_sku_indication"
    /\ \E r \in sku_indication :
          r.code_source = "STRUCTURED_XML" /\ r.valid_from < r.valid_to
    /\ \E r \in sku_indication : r.code_source = "TEXT_PARSED"


\* C10 as stated: once a segment has a matched_code_value, no later step of the
\* resolution pipeline (retroactive segment mapping, annotation with existing
\* codes, any similarity layer) changes it.
C10_MatchedCodeIsFinal ==
    [][\A s \in limitation_indication_segment :
           s.matched_code_value # Null =>
               \E q \in limitation_indication_segment' :
                   /\ q.segment_id = s.segment_id
                   /\ q.matched_code_value = s.matched_code_value]_vars

\* the part of C10 that the code keeps: the annotation with existing codes and
\* the similarity layers write only to segments that are still NULL
C10_LaterStepsKeepMatchedCode ==
    [][op' # "retroactive_segment_mapping" =>
          \A s \in limitation_indication_segment :
              s.matched_code_value # Null =>
                  \E q \in limitation_indication_segment' :
                      /\ q.segment_id = s.segment_id
                      /\ q.matched_code_value = s.matched_code_value]_vars


\* what the layers 1 to 4 can write for an unmatched row: the outcomes of the
\* first layer that has any
FirstLayerOutcomes(u) ==
    IF Layer1Outcomes(u) # {} THEN Layer1Outcomes(u)
    ELSE IF Layer2Outcomes(u) # {} THEN Layer2Outcomes(u)
    ELSE IF Layer2cOutcomes(u) # {} THEN Layer2cOutcomes(u)
    ELSE IF Layer3Outcomes(u) # {} THEN Layer3Outcomes(u)
    ELSE Layer4Outcomes(u)

\* the row similarity_segment_mapping fetches for segment s when the pack
\* sub-query returns dossier d
UnmatchedRowWith(s, d) ==
    [segment_id |-> s.segment_id, limitation_id |-> s.limitation_id,
     indication_name_de |-> s.indication_name_de, bag_dossier_no |-> d]

\* C11 as stated: the cascade is deterministic. When similarity_segment_mapping
\* starts, the code and provenance the layers write for a segment do not depend
\* on which pack of the preparation the LIMIT 1 sub-query returns nor on the
\* order in which the candidate map entries are listed.
C11_CascadeDeterministic ==
    pc = "similarity_segment_mapping" =>
        \A s \in UnmatchedSegments :
            \A d1 \in PackDossiers(s.preparation_id) :
                /\ Cardinality(FirstLayerOutcomes(UnmatchedRowWith(s, d1))) <= 1
                /\ \A d2 \in PackDossiers(s.preparation_id) :
                       FirstLayerOutcomes(UnmatchedRowWith(s, d1))
                           = FirstLayerOutcomes(UnmatchedRowWith(s, d2))


\* C12 as stated: the confidence and the provenance tag recorded for a matched
\* segment are never changed or removed afterwards, also when the cascade runs a
\* second time on the store the first run produced.
C12_ConfidenceAndProvenanceKept ==
    [][/\ \A e \in similarity_match_log : e \in similarity_match_log'
       /\ \A s \in limitation_indication_segment :
              s.matched_code_value # Null =>
                  \E q \in limitation_indication_segment' :
                      /\ q.segment_id = s.segment_id
                      /\ q.matched_code_value # Null
                      /\ q.matched_code_source = s.matched_code_source]_vars

\* the part of C12 that the code keeps: the provenance tag on the segment row
C12_ProvenanceTagKept ==
    [][\A s \in limitation_indication_segment :
           s.matched_code_value # Null =>
               \E q \in limitation_indication_segment' :
                   /\ q.segment_id = s.segment_id
                   /\ q.matched_code_value # Null
                   /\ q.matched_code_source = s.matched_code_source]_vars


-----------------------------------------------------------------------------
(* build_sku_indication_db.py: phase 3b, segment_texts *)

\* name = seg["name_de"] or seg["name_fr"] or seg["name_it"]
FirstName(seg) ==
    IF Truthy(seg.name_de) THEN seg.name_de
    ELSE IF Truthy(seg.name_fr) THEN seg.name_fr ELSE seg.name_it

\* the segments kept by the structural filter of segment_texts
text_real_segments(segments) ==
    SelectSeq(segments, LAMBDA s : ~_is_structural_name(FirstName(s)))

\* INSERT INTO text_segment (text_id, segment_order, ...) VALUES (text_id,
\* seg["order"], ...) for each kept segment; the cashback columns are left out
TextSegmentRows(tbl, text_id, segs) ==
    {[segment_id |-> Cardinality(tbl) + i,
      text_id |-> text_id,
      segment_order |-> segs[i].order,
      indication_name_de |-> segs[i].name_de,
      indication_name_fr |-> segs[i].name_fr,
      indication_name_it |-> segs[i].name_it,
      segment_text_de |-> segs[i].text_de,
      segment_text_fr |-> segs[i].text_fr,
      segment_text_it |-> segs[i].text_it] : i \in 1..Len(segs)}

RECURSIVE segment_texts(_, _)
\* the loop over the rows of limitation_text, in text_id order
SegmentTextsOf(tbl, rows, r) ==
    segment_texts(
        tbl \cup TextSegmentRows(tbl, r.text_id,
                     text_real_segments(split_limitation_texts(
                         r.description_de, r.description_fr, r.description_it))),
        rows \ {r})

segment_texts(tbl, rows) ==
    IF rows = {} THEN tbl
    ELSE SegmentTextsOf(tbl, rows, CHOOSE x \in rows : \A y \in rows : x.text_id <= y.text_id)

SegmentTexts ==
    /\ pc = "fanned_out"
    /\ text_segment' = segment_texts(text_segment, limitation_text)
    /\ pc' = "segmented"
    /\ op' = "segment_texts"
    /\ UNCHANGED <<varsLLM, varsB, varsE, varsLog, indication_code_name, existing_map, map_unmatched>>

-----------------------------------------------------------------------------
(* build_sku_indication_db.py: phase 3c, build_code_name_mapping *)

\* _normalize_indication_name of build_sku_indication_db.py: strip, drop the
\* trailing colon, collapse blanks and lower-case
_normalize_indication_name_lower(name) ==
    IF ~Truthy(name) THEN <<>> ELSE NormLower(name)

\* code.split(".")[0] if "." in code else None
DossierOrNone(code) == IF HasDot(code) THEN CodeDossier(code) ELSE Null

\* the row _insert_mapping binds; confidences are in hundredths
MapRow(code, name_de, name_fr, name_it, dossier, source, confidence, text_id, seg_id) ==
    [indication_code |-> code, indication_name_de |-> name_de,
     indication_name_fr |-> name_fr, indication_name_it |-> name_it,
     bag_dossier_no |-> dossier, match_source |-> source,
     match_confidence |-> confidence, source_text_id |-> text_id,
     source_segment_id |-> seg_id]

\* INSERT OR IGNORE under UNIQUE(indication_code, indication_name_de); a NULL
\* name never conflicts
_insert_mapping(tbl, row) ==
    IF \E r \in tbl : /\ r.indication_code = row.indication_code
                      /\ Truthy(row.indication_name_de)
                      /\ r.indication_name_de = row.indication_name_de
    THEN tbl
    ELSE tbl \cup {row}

RECURSIVE InsertMappings(_, _)
\* the loop "for ... in rows: _insert_mapping(...)" over rows that do not
\* conflict with each other
InsertMappingsFrom(tbl, rows, row) ==
    InsertMappings(_insert_mapping(tbl, row), rows \ {row})

InsertMappings(tbl, rows) ==
    IF rows = {} THEN tbl
    ELSE InsertMappingsFrom(tbl, rows, CHOOSE r \in rows : TRUE)

\* the results a GROUP BY can return: one row of each group, whichever
OnePer(cands, key) ==
    {R \in SUBSET cands :
        /\ \A c \in cands : \E r \in R : key[r] = key[c]
        /\ \A r1, r2 \in R : key[r1] = key[r2] => r1 = r2}

RealSources == {"STRUCTURED_XML", "TEXT_PARSED"}

\* COUNT(DISTINCT indication_code) of a text among the given code sources
CodesOfText(text_id, sources) ==
    {si.indication_code :
        si \in {x \in sku_indication : x.text_id = text_id /\ x.code_source \in sources}}

SegmentsOfText(text_id) == {s \in text_segment : s.text_id = text_id}

\* sku_indication JOIN text_segment on texts with exactly one segment
JoinSingleSegment(sources) ==
    {<<si.indication_code, ts>> :
        si \in {x \in sku_indication : x.code_source \in sources},
        ts \in {s \in text_segment : Cardinality(SegmentsOfText(s.text_id)) = 1}}

\* layers 1 and 2: texts with one code (among count_sources) and one segment
DirectCandidates(sources, count_sources) ==
    {p \in JoinSingleSegment(sources) :
        /\ \E si \in sku_indication : /\ si.indication_code = p[1]
                                      /\ si.code_source \in sources
                                      /\ si.text_id = p[2].text_id
        /\ Cardinality(CodesOfText(p[2].text_id, count_sources)) = 1}

\* layer 3: texts with one segment, any number of codes
SharedCandidates ==
    {p \in JoinSingleSegment(RealSources) :
        \E si \in sku_indication : /\ si.indication_code = p[1]
                                   /\ si.code_source \in RealSources
                                   /\ si.text_id = p[2].text_id}

PairCode(p) == p[1]

PairRow(p, source, confidence) ==
    MapRow(p[1], p[2].indication_name_de, p[2].indication_name_fr,
           p[2].indication_name_it, DossierOrNone(p[1]), source, confidence,
           p[2].text_id, p[2].segment_id)

\* one layer of direct pairing: GROUP BY si.indication_code, then the inserts
PairingLayer(cands, source, confidence, to_pc) ==
    /\ \E R \in OnePer(cands, [p \in cands |-> PairCode(p)]) :
           indication_code_name' =
               InsertMappings(indication_code_name,
                              {PairRow(p, source, confidence) : p \in R})
    /\ pc' = to_pc
    /\ op' = source
    /\ UNCHANGED <<varsLLM, varsB, varsE, varsLog, text_segment, existing_map, map_unmatched>>

\* ref.indication_name_code_map of swiss_pharma_limitations.db, when the file
\* exists
RefEntry(code, name_de, dossier) ==
    [code_value |-> code, indication_name_de |-> name_de, indication_name_fr |-> Null,
     indication_name_it |-> Null, bag_dossier_no |-> dossier]

RefMaps ==
    {{},
     {RefEntry(Code(D1, <<"01">>), <<"LENALIDOMID">>, D1)},
     {RefEntry(Code(D2, <<"02">>), <<"psoriasis", ":">>, D2)},
     {RefEntry(Code(D2, <<"02">>), <<"psoriasis", ":">>, D2),
      RefEntry(Code(D2, <<"03">>), <<"psoriasis">>, D2)}}

RefRow(e) ==
    MapRow(e.code_value, e.indication_name_de, e.indication_name_fr,
           e.indication_name_it, e.bag_dossier_no, "REF_MAP", 100, Null, Null)

\* Layer 0: import of the reference map
MapLayer0 ==
    /\ pc = "segmented"
    /\ \E ref \in RefMaps :
           indication_code_name' =
               InsertMappings(indication_code_name, {RefRow(e) : e \in ref})
    /\ pc' = "map_layer_1"
    /\ op' = "REF_MAP"
    /\ UNCHANGED <<varsLLM, varsB, varsE, varsLog, text_segment, existing_map, map_unmatched>>

\* Layer 1: one STRUCTURED_XML code and one segment
MapLayer1 ==
    /\ pc = "map_layer_1"
    /\ PairingLayer(DirectCandidates({"STRUCTURED_XML"}, {"STRUCTURED_XML"}),
                    "DIRECT_STRUCT", 100, "map_layer_2")

\* Layer 2: one TEXT_PARSED code and one segment
MapLayer2 ==
    /\ pc = "map_layer_2"
    /\ PairingLayer(DirectCandidates({"TEXT_PARSED"}, RealSources),
                    "DIRECT_TEXT", 95, "map_layer_3")

\* Layer 3: several codes and one segment
MapLayer3 ==
    /\ pc = "map_layer_3"
    /\ PairingLayer(SharedCandidates, "SHARED_TEXT", 90, "map_layer_4")

\* sorted(codes, key=lambda c: c.split(".")[-1]): the rank of a code
SuffixRank(codes, c) ==
    Cardinality({d \in codes : CharsLess(CharsOf(IndPart(d)), CharsOf(IndPart(c)))})

\* the position of a segment in "ORDER BY segment_order"
OrderRank(segs, s) == Cardinality({q \in segs : q.segment_order < s.segment_order})

\* the pairs (codes[i], segs[i]) of one text
OrdinalPairsOf(codes, segs) ==
    {<<c, s>> \in codes \X segs : SuffixRank(codes, c) = OrderRank(segs, s)}

\* layer 4 for one text: n_codes > 1, seg_count = n_codes, one dossier
OrdinalPairs(text_id) ==
    IF /\ Cardinality(CodesOfText(text_id, RealSources)) > 1
       /\ Cardinality(SegmentsOfText(text_id)) = Cardinality(CodesOfText(text_id, RealSources))
       /\ Cardinality({CodeDossier(c) : c \in {x \in CodesOfText(text_id, RealSources) : HasDot(x)}}) = 1
    THEN OrdinalPairsOf(CodesOfText(text_id, RealSources), SegmentsOfText(text_id))
    ELSE {}

\* Layer 4: N codes and N segments, paired by position
MapLayer4 ==
    /\ pc = "map_layer_4"
    /\ indication_code_name' =
           InsertMappings(indication_code_name,
               {PairRow(p, "ORDINAL_POSITION", 80) :
                    p \in UNION {OrdinalPairs(r.text_id) : r \in limitation_text}})
    /\ pc' = "map_layer_5"
    /\ op' = "ORDINAL_POSITION"
    /\ UNCHANGED <<varsLLM, varsB, varsE, varsLog, text_segment, existing_map, map_unmatched>>

\* a row of text_segment JOIN sku_indication
UnmatchedOf(ts, si) ==
    [segment_id |-> ts.segment_id, text_id |-> ts.text_id,
     indication_name_de |-> ts.indication_name_de,
     indication_name_fr |-> ts.indication_name_fr,
     indication_name_it |-> ts.indication_name_it,
     indication_code |-> si.indication_code]

\* the rows of the query "unmatched" of layer 5 before GROUP BY ts.segment_id:
\* segments with a German name that is not a mapped name, joined with the codes
\* of their text
UnmatchedCandidates ==
    {UnmatchedOf(p[1], p[2]) :
        p \in {q \in text_segment \X sku_indication :
                  /\ q[2].text_id = q[1].text_id
                  /\ Truthy(q[1].indication_name_de)
                  /\ \A m \in indication_code_name :
                         m.indication_name_de # q[1].indication_name_de}}

UnmatchedKey(u) == u.segment_id

\* Layer 5, the two queries: existing_map and unmatched
MapLayer5Fetch ==
    /\ pc = "map_layer_5"
    /\ existing_map' = {[indication_code |-> m.indication_code,
                         indication_name_de |-> m.indication_name_de,
                         bag_dossier_no |-> m.bag_dossier_no] : m \in indication_code_name}
    /\ \E R \in OnePer(UnmatchedCandidates, [u \in UnmatchedCandidates |-> UnmatchedKey(u)]) :
           map_unmatched' = R
    /\ pc' = "map_layer_5_rows"
    /\ op' = "layer_5_fetch"
    /\ UNCHANGED <<varsLLM, varsB, varsE, varsLog, text_segment, indication_code_name>>

\* norm_lookup[norm_name]
NormLookup(norm_name) ==
    {e \in existing_map :
        /\ Truthy(e.indication_name_de)
        /\ _normalize_indication_name_lower(e.indication_name_de) = norm_name}

\* brand_lookup[brand_norm]: the brand table is applied to the lower-cased name
BrandLookup(brand_norm) ==
    {e \in existing_map :
        /\ Truthy(e.indication_name_de)
        /\ _normalize_brands(_normalize_indication_name_lower(e.indication_name_de))
               = brand_norm}

NoMapping == <<Null, "NONE", 0>>

\* a cross-dossier entry: the indication part of ref_code under the own dossier
CrossOutcomes(refs, dossier, source, confidence) ==
    {IF HasDot(e.indication_code) /\ Truthy(dossier)
     THEN <<Code(dossier, IndPart(e.indication_code)), source, confidence>>
     ELSE NoMapping : e \in refs}

SameOutcomes(refs, dossier, source, confidence) ==
    {<<e.indication_code, source, confidence>> :
        e \in {x \in refs : x.bag_dossier_no = dossier}}

\* 5c: brand-normalized match, tried only if the brand table changed the name
BrandOutcomes(norm_name, brand_norm, dossier) ==
    IF brand_norm # norm_name /\ BrandLookup(brand_norm) # {}
    THEN IF SameOutcomes(BrandLookup(brand_norm), dossier, "BRAND_SAME", 90) # {}
         THEN SameOutcomes(BrandLookup(brand_norm), dossier, "BRAND_SAME", 90)
         ELSE CrossOutcomes(BrandLookup(brand_norm), dossier, "BRAND_CROSS", 85)
    ELSE {NoMapping}

\* 5b: norm_lookup[norm_name][0]; without a dotted code or a dossier, 5c is next
NormCrossOutcomes(norm_name, dossier) ==
    UNION {IF HasDot(e.indication_code) /\ Truthy(dossier)
           THEN {<<Code(dossier, IndPart(e.indication_code)), "NORM_CROSS", 90>>}
           ELSE BrandOutcomes(norm_name, _normalize_brands(norm_name), dossier) :
               e \in NormLookup(norm_name)}

\* what layer 5 can insert for one unmatched segment
MapLayer5Outcomes(norm_name, dossier) ==
    IF SameOutcomes(NormLookup(norm_name), dossier, "NORM_SAME", 95) # {}
    THEN SameOutcomes(NormLookup(norm_name), dossier, "NORM_SAME", 95)
    ELSE IF NormLookup(norm_name) # {}
         THEN NormCrossOutcomes(norm_name, dossier)
         ELSE BrandOutcomes(norm_name, _normalize_brands(norm_name), dossier)

MapOutcomesOf(u) ==
    MapLayer5Outcomes(_normalize_indication_name_lower(u.indication_name_de),
                      DossierOrNone(u.indication_code))

InsertOutcome(tbl, u, o) ==
    IF o = NoMapping THEN tbl
    ELSE _insert_mapping(tbl, MapRow(o[1], u.indication_name_de, u.indication_name_fr,
                                     u.indication_name_it, DossierOrNone(u.indication_code),
                                     o[2], o[3], u.text_id, u.segment_id))

\* Layer 5, one iteration of "for ... in unmatched"
MapLayer5Row ==
    /\ pc = "map_layer_5_rows"
    /\ map_unmatched # {}
    /\ \E u \in map_unmatched :
           /\ \A v \in map_unmatched : u.segment_id <= v.segment_id
           /\ \E o \in MapOutcomesOf(u) :
                  indication_code_name' = InsertOutcome(indication_code_name, u, o)
           /\ map_unmatched' = map_unmatched \ {u}
    /\ op' = "layer_5_row"
    /\ UNCHANGED <<varsLLM, varsB, varsE, varsLog, text_segment, existing_map, pc>>

\* RE_BOLD.search(text).group(1): the first bold name, paragraph-level or not
FirstBold(text) ==
    IF Truthy(text) /\ BoldFrom(text, 1) # <<>> THEN BoldFrom(text, 1)[1] ELSE Null

\* clean_html: line breaks become blanks, bold markup is dropped, blanks collapse
clean_html(text) ==
    Strip(CollapseSpaces(SelectSeq(Replace(text, <<"<br>">>, <<" ">>),
                                   LAMBDA a : a \notin {"<b>", "</b>"})))

\* the first sentence: up to the first period that is not the first character
FirstSentence(cleaned) ==
    IF \E i \in 2..Len(cleaned) : cleaned[i] = "."
    THEN Strip(SubSeq(cleaned, 1, CHOOSE i \in 2..Len(cleaned) :
                                      cleaned[i] = "." /\ \A j \in 2..(i - 1) : cleaned[j] # "."))
    ELSE cleaned

\* the mapping of layer 7 for one (code, text): the first bold name of the
\* German text, else the first sentence; texts of the model are shorter than
\* the 120 characters after which the sentence is cut
Layer7Row(code, r) ==
    IF Truthy(FirstBold(r.description_de)) /\ ~_is_structural_name(FirstBold(r.description_de))
    THEN {MapRow(code, FirstBold(r.description_de), FirstBold(r.description_fr), Null,
                 DossierOrNone(code), "BOLD_EXTRACT", 70, r.text_id, Null)}
    ELSE IF FirstSentence(clean_html(r.description_de)) # <<>>
         THEN {MapRow(code, FirstSentence(clean_html(r.description_de)), Null, Null,
                      DossierOrNone(code), "DESC_TRUNCATED", 50, r.text_id, Null)}
         ELSE {}

\* unmapped_codes of layer 7 with the rows they produce
Layer7Rows ==
    UNION {Layer7Row(p[1].indication_code, p[2]) :
              p \in {q \in sku_indication \X limitation_text :
                        /\ q[2].text_id = q[1].text_id
                        /\ q[1].code_source \in RealSources
                        /\ Truthy(q[2].description_de)
                        /\ \A m \in indication_code_name :
                               m.indication_code # q[1].indication_code}}

MapKey(row) == <<row.indication_code, row.indication_name_de>>

\* Layer 7 (layer 6 is skipped: this program never creates text_segment_llm)
MapLayer7 ==
    /\ pc = "map_layer_5_rows"
    /\ map_unmatched = {}
    /\ \E R \in OnePer(Layer7Rows, [row \in Layer7Rows |-> MapKey(row)]) :
           indication_code_name' = InsertMappings(indication_code_name, R)
    /\ pc' = "mapped"
    /\ op' = "layer_7"
    /\ UNCHANGED <<varsLLM, varsB, varsE, varsLog, text_segment, existing_map, map_unmatched>>


\* the blocks of the documents of this phase
Und == <<"UND">>

\* two headers and a structural header between them, two structured codes
LimU == Lim("DIA",
            Bold(Myelom) \o <<"x", "<br>">> \o Bold(Und) \o <<"<br>">>
            \o Bold(Arthritis) \o <<"y">>,
            Null, Null, <<Code(D1, <<"01">>), Code(D1, <<"02">>)>>, <<>>)

\* a structural header at the start
LimV == Lim("DIA", Bold(Und) \o <<"<br>">> \o Bold(Psoriasis) \o <<"x">>, Null, Null,
            <<Code(D1, <<"01">>)>>, <<>>)

\* two bold names with no line break between them, two codes written in the
\* text, no structured code
LimQ == Lim("DIA", Bold(Psoriasis) \o <<" ", "adults", ".", " ">>
                   \o TextCode(Code(D1, <<"01">>)) \o <<" ">>
                   \o Bold(Arthritis) \o <<" ", "children", ".", " ">>
                   \o TextCode(Code(D1, <<"02">>)),
            Null, Null, <<>>, <<>>)

\* the same two names as paragraph-level headers
LimR == Lim("DIA", Bold(Psoriasis) \o <<" ", "adults", ".", " ">>
                   \o TextCode(Code(D1, <<"01">>)) \o <<"<br>">>
                   \o Bold(Arthritis) \o <<" ", "children", ".", " ">>
                   \o TextCode(Code(D1, <<"02">>)),
            Null, Null, <<>>, <<>>)

\* headers in the French text only
LimFr == Lim("DIA", <<"x">>, Bold(Psoriasis) \o <<"y">>, Null, <<Code(D1, <<"01">>)>>, <<>>)

\* a header that is a brand of the substitution table, no code: FALLBACK_XX
LimB == Lim("DIA", Bold(<<"REVLIMID">>) \o <<"x">>, Null, Null, <<>>, <<>>)

\* a header that differs from a mapped name in case only, one code in the text
LimL == Lim("DIA", Bold(<<"lenalidomid">>) \o <<"x", " ">> \o TextCode(Code(D1, <<"02">>)),
            Null, Null, <<>>, <<>>)

MDoc1 == <<Prep(P1, <<Pack(G1, D1, <<10>>, <<>>)>>, <<LimU>>)>>

MDoc2 == <<Prep(P1, <<Pack(G1, D1, <<10>>, <<>>)>>, <<LimV, LimFr>>)>>

MDoc3 == <<Prep(P1, <<Pack(G1, D1, <<10>>, <<>>)>>, <<LimQ>>)>>

MDoc4 == <<Prep(P1, <<Pack(G1, D1, <<10>>, <<>>)>>, <<LimR>>)>>

MDoc5 == <<Prep(P1, <<Pack(G1, D1, <<10>>, <<>>)>>, <<LimB>>)>>

MDoc6 == <<Prep(P1, <<Pack(G1, D1, <<10>>, <<>>)>>, <<LimB, LimL>>)>>

\* a header that is an indication name, no code: FALLBACK_XX
LimPs == Lim("DIA", Bold(Psoriasis) \o <<"x">>, Null, Null, <<>>, <<>>)

MDoc7 == <<Prep(P1, <<Pack(G1, D1, <<10>>, <<>>)>>, <<LimPs>>)>>

MapDocuments == {MDoc1, MDoc2, MDoc3, MDoc4, MDoc5, MDoc6, MDoc7}

NextMap ==
    \/ \E doc \in MapDocuments : IngestFile(doc)
    \/ ResolveDates
    \/ Fanout
    \/ SegmentTexts
    \/ MapLayer0
    \/ MapLayer1
    \/ MapLayer2
    \/ MapLayer3
    \/ MapLayer4
    \/ MapLayer5Fetch
    \/ MapLayer5Row
    \/ MapLayer7

SpecMap == Init /\ [][NextMap]_vars

\* the segment orders stored for one text
OrdersOf(segs) == {s.segment_order : s \in segs}

\* C13: within every limitation text (limitation) that has stored segments, the
\* stored segment orders are exactly 0, 1, ..., n-1, with no gaps and no
\* duplicates, also when structural headers were filtered out of the middle or
\* the start of the text.
C13_SegmentOrdersDense ==
    \A r \in limitation_text :
        LET segs == {s \in text_segment : s.text_id = r.text_id}
        IN OrdersOf(segs) = 0..(Cardinality(segs) - 1)

\* the same for the segments extract_limitations.py stores per limitation
C13_RenumberedOrdersDense ==
    \A l \in limitation :
        LET segs == {s \in limitation_indication_segment :
                         s.limitation_id = l.limitation_id}
        IN OrdersOf(segs) = 0..(Cardinality(segs) - 1)




\* the stored segments as (order, German name) and the mappings the cascade
\* adds as (code, German name, provenance, confidence)
SegmentNames == {<<s.segment_order, s.indication_name_de>> : s \in text_segment}

CascadeMappings ==
    {<<m.indication_code, m.indication_name_de, m.match_source, m.match_confidence>> :
        m \in {x \in indication_code_name : x.match_source # "REF_MAP"}}

\* a run over the single snapshot doc, after build_code_name_mapping
MappedOnly(doc) == pc = "mapped" /\ extract_id = 1 /\ last_doc = doc

\* C14 as stated: for the body "<b>Psoriasis</b> adults. <b>Arthritis</b>
\* children." with no line break before the second bold name and the two parsed
\* codes 11111.01 and 11111.02, the segmenter yields the two segments Psoriasis
\* and Arthritis and the ordinal layer assigns 11111.01 to segment 0 and 11111.02
\* to segment 1.
C14_InlineBoldStartsSegment ==
    MappedOnly(MDoc3) =>
        /\ SegmentNames = {<<0, Psoriasis>>, <<1, Arthritis>>}
        /\ CascadeMappings =
               {<<Code(D1, <<"01">>), Psoriasis, "ORDINAL_POSITION", 80>>,
                <<Code(D1, <<"02">>), Arthritis, "ORDINAL_POSITION", 80>>}

\* C14 amended: the second bold name is not at the start of a paragraph, so the
\* text has the single segment Psoriasis; the ordinal layer does not apply and
\* the shared-text layer maps both codes to Psoriasis with confidence 0.9. With
\* a line break before the second bold name there are two segments and the
\* ordinal layer pairs 11111.01 with segment 0 and 11111.02 with segment 1.
C14_InlineBoldIsBody ==
    /\ MappedOnly(MDoc3) =>
           /\ SegmentNames = {<<0, Psoriasis>>}
           /\ CascadeMappings =
                  {<<Code(D1, <<"01">>), Psoriasis, "SHARED_TEXT", 90>>,
                   <<Code(D1, <<"02">>), Psoriasis, "SHARED_TEXT", 90>>}
    /\ MappedOnly(MDoc4) =>
           /\ SegmentNames = {<<0, Psoriasis>>, <<1, Arthritis>>}
           /\ CascadeMappings =
                  {<<Code(D1, <<"01">>), Psoriasis, "ORDINAL_POSITION", 80>>,
                   <<Code(D1, <<"02">>), Arthritis, "ORDINAL_POSITION", 80>>}

C14_Witness ==
    /\ MappedOnly(MDoc3)
    /\ \E s \in text_segment : Len(s.segment_text_de) > 10
    /\ \E m \in indication_code_name : m.match_source = "SHARED_TEXT"


\* C15: a segment whose name contains a brand of the substitution table, that no
\* earlier layer matched, and whose brand-canonicalized normalized name equals
\* that of a reference-map entry of the same dossier, is matched by the
\* brand-canonicalized lookup layer with confidence 0.9 and the entry's code.
C15_BrandLayerMatches ==
    (/\ MappedOnly(MDoc5)
     /\ \E m \in indication_code_name :
            /\ m.match_source = "REF_MAP"
            /\ m.indication_name_de = <<"LENALIDOMID">>
            /\ m.bag_dossier_no = D1) =>
        \E m \in indication_code_name :
            /\ m.indication_name_de = <<"REVLIMID">>
            /\ m.indication_code = Code(D1, <<"01">>)
            /\ m.match_source = "BRAND_SAME"
            /\ m.match_confidence = 90


\* C16: when a later snapshot reports, for an existing GTIN, another owning
\* preparation or another dossier, the stored row afterwards holds the values of
\* the latest snapshot: right after a snapshot is ingested, every pack of it is
\* stored with the preparation and the dossier that snapshot gives it.
C16_LatestSnapshotWins ==
    op = "ingest" =>
        \A i \in 1..Len(last_doc) :
            Truthy(last_doc[i].SwissmedicNo5) =>
                \A j \in 1..Len(last_doc[i].Packs) :
                    Truthy(last_doc[i].Packs[j].GTIN) =>
                        \E r \in sku :
                            /\ r.gtin = last_doc[i].Packs[j].GTIN
                            /\ r.bag_dossier_no = last_doc[i].Packs[j].BagDossierNo
                            /\ r.preparation_id =
                                   PrepIdIn(prep_map, last_doc[i].SwissmedicNo5)


-----------------------------------------------------------------------------
(* build_sku_indication_db.py: a run that is aborted *)

\* the process ends before main() returns (an exception of a phase, or the
\* process is stopped): main has no handler and no rollback, and the file
\* sku_indication.db keeps what was committed so far
Abort ==
    /\ pc \notin {"mapped", "aborted"}
    /\ pc' = "aborted"
    /\ op' = "abort"
    /\ UNCHANGED <<varsB, varsE, varsLog, varsMap, varsLLM>>

NextRun ==
    \/ NextMap
    \/ Abort

SpecRun == Init /\ [][NextRun]_vars

\* C17: a run is atomic from the caller's perspective: if the run is aborted at
\* any point, the store observable afterwards is not a partially populated one;
\* only a completed run leaves a store.
C17_AbortedRunLeavesNoStore ==
    pc = "aborted" =>
        /\ sku = {}
        /\ limitation_text = {}
        /\ prep_code_link = {}
        /\ sku_indication = {}
        /\ text_segment = {}
        /\ indication_code_name = {}


\* the rows of indication_code_name an entry of existing_map was read from
\* (UNIQUE(indication_code, indication_name_de) makes it one row)
RowsOfEntry(e) ==
    {m \in indication_code_name :
        /\ m.indication_code = e.indication_code
        /\ m.indication_name_de = e.indication_name_de}

\* C18: running the cascade leaves the NameCodeMap unchanged: no cascade layer
\* inserts, updates or deletes an entry, and no layer's lookup sees an entry
\* that an earlier layer of the same run produced. Stated on the lookup of
\* layer 5: every entry of existing_map is one the table held before layer 1
\* ran (an imported reference entry).
C18_LookupSeesNoCascadeEntry ==
    pc = "map_layer_5_rows" =>
        \A e \in existing_map :
            \A m \in RowsOfEntry(e) : m.match_source = "REF_MAP"

\* C18, first half: a step of the layers 1 to 7 leaves the table
\* indication_code_name as it was.
C18_LayersLeaveMapUnchanged ==
    [][(pc \in {"map_layer_1", "map_layer_2", "map_layer_3", "map_layer_4",
                "map_layer_5", "map_layer_5_rows"})
          => (indication_code_name' = indication_code_name)]_vars


\* the positions of split_limitation_texts(de, fr, it) that carry an indication
\* header in French and none in German
FrenchOnlyHeaders(de, fr, it) ==
    {i \in 1..Len(split_limitation_texts(de, fr, it)) :
        /\ split_limitation_texts(de, fr, it)[i].name_de = Null
        /\ ~_is_structural_name(split_limitation_texts(de, fr, it)[i].name_fr)}

\* a stored segment with the French header and null German name and body
StoredHeaderless(segs, name_fr) ==
    \E s \in segs : /\ s.indication_name_de = Null
                    /\ s.segment_text_de = Null
                    /\ s.indication_name_fr = name_fr

\* C19: a limitation text that has paragraph-level headers in only some
\* languages (French but not German) is accepted as-is: its segments are stored
\* with null name and body in the header-less language and are not dropped.
\* Stated on limitation_indication_segment once build_indication_segments has run.
C19_PartialHeaderSegmentsStored ==
    pc \notin {"ingest", "retroactive_code_assignment", "build_indication_segments"} =>
        \A l \in limitation :
            l.limitation_type = "DIA" =>
                \A i \in FrenchOnlyHeaders(l.description_de, l.description_fr, l.description_it) :
                    StoredHeaderless(
                        {s \in limitation_indication_segment : s.limitation_id = l.limitation_id},
                        split_limitation_texts(l.description_de, l.description_fr,
                                               l.description_it)[i].name_fr)

\* C19 on text_segment of build_sku_indication_db.py once segment_texts has run
C19_TextSegmentKeepsPartialHeaders ==
    pc \notin {"ingest", "resolved", "fanned_out"} =>
        \A r \in limitation_text :
            \A i \in FrenchOnlyHeaders(r.description_de, r.description_fr, r.description_it) :
                StoredHeaderless(
                    {s \in text_segment : s.text_id = r.text_id},
                    split_limitation_texts(r.description_de, r.description_fr,
                                           r.description_it)[i].name_fr)

C19_TextSegmentWitness ==
    /\ pc = "segmented"
    /\ \E r \in limitation_text :
           FrenchOnlyHeaders(r.description_de, r.description_fr, r.description_it) # {}


\* C20: a limitation block at the third (sub-item / ITCODE) level is always
\* discarded: after ingestion and segmentation no limitation row, indication
\* code or segment originates from a sub-item-level block.
C20_SubItemBlocksDiscarded ==
    /\ \A l \in limitation : l.limitation_level # "ITCODE"
    /\ \A r \in indication_code :
           \A l \in limitation :
               l.limitation_id = r.limitation_id => l.limitation_level # "ITCODE"
    /\ \A s \in limitation_indication_segment :
           \A l \in limitation :
               l.limitation_id = s.limitation_id => l.limitation_level # "ITCODE"

\* C20, the part that holds: no limitation_text row and no code link comes from
\* a sub-item-level block
C20_NoTextFromSubItem ==
    /\ \A k \in limitation_code_link : k.limitation_level # "ITCODE"
    /\ \A r \in limitation_text :
           \E l \in limitation :
               /\ l.limitation_level # "ITCODE"
               /\ l.description_de = r.description_de
               /\ l.description_fr = r.description_fr
               /\ l.description_it = r.description_it


-----------------------------------------------------------------------------
(* Code extraction of one limitation block *)

\* the limitation blocks of a <Preparation> element that process_preparation
\* hands to process_limitation, each with its level and dossier
BlocksOf(prep_elem) ==
    UNION {{<<prep_elem.Packs[j].Limitations[k], "PACK", prep_elem.Packs[j].BagDossierNo>> :
               k \in 1..Len(prep_elem.Packs[j].Limitations)} :
           j \in {n \in 1..Len(prep_elem.Packs) : Truthy(prep_elem.Packs[n].GTIN)}}
    \cup {<<prep_elem.Limitations[k], "PREPARATION", FallbackBag(prep_elem.Packs)>> :
             k \in 1..Len(prep_elem.Limitations)}

\* the codes the first layer that yields any gives for a block <<lim, level, dossier>>
FirstLayerCodes(b) ==
    IF extract_codes_structured(b[1]) # {} THEN extract_codes_structured(b[1])
    ELSE IF extract_codes_from_text(b[1].DescriptionDe, b[1].DescriptionFr,
                                    b[1].DescriptionIt) # {}
    THEN extract_codes_from_text(b[1].DescriptionDe, b[1].DescriptionFr, b[1].DescriptionIt)
    ELSE IF b[1].LimitationType = "DIA" /\ Truthy(b[3]) THEN {Code(b[3], <<"XX">>)}
    ELSE {}

FirstLayerSource(b) ==
    IF extract_codes_structured(b[1]) # {} THEN "STRUCTURED_XML"
    ELSE IF extract_codes_from_text(b[1].DescriptionDe, b[1].DescriptionFr,
                                    b[1].DescriptionIt) # {}
    THEN "TEXT_PARSED"
    ELSE "FALLBACK_XX"

TextOfBlock(b) == <<b[1].DescriptionDe, b[1].DescriptionFr, b[1].DescriptionIt>>

\* the blocks of the document ingested last that belong to a preparation
BlocksOfLast(preparation_id) ==
    UNION {BlocksOf(last_doc[i]) :
              i \in {n \in 1..Len(last_doc) :
                        /\ Truthy(last_doc[n].SwissmedicNo5)
                        /\ PrepIdIn(prep_map, last_doc[n].SwissmedicNo5) = preparation_id}}

\* the links of a preparation to the text of a block that the snapshot ingested
\* last has written
TouchedLinks(preparation_id, lim_elem) ==
    {r \in prep_code_link :
        /\ r.preparation_id = preparation_id
        /\ r.last_seen_extract = extract_id
        /\ r.text_id = TextIdOf(limitation_text,
                                compute_hash(lim_elem.DescriptionDe, lim_elem.DescriptionFr,
                                             lim_elem.DescriptionIt))}

BlockLinked(preparation_id, b) ==
    /\ \A c \in FirstLayerCodes(b) :
           \E r \in TouchedLinks(preparation_id, b[1]) :
               /\ r.indication_code = c
               /\ r.first_seen_extract = extract_id =>
                      /\ r.code_source = FirstLayerSource(b)
                      /\ r.is_fallback = (IF FirstLayerSource(b) = "FALLBACK_XX" THEN 1 ELSE 0)
    /\ \A r \in TouchedLinks(preparation_id, b[1]) :
           \E x \in {y \in BlocksOfLast(preparation_id) : TextOfBlock(y) = TextOfBlock(b)} :
               r.indication_code \in FirstLayerCodes(x)

C22_PackScopedLinkSameDossier ==
    \A r \in sku_indication :
        r.limitation_level = "PACK" =>
            \A s \in sku :
                s.gtin = r.gtin => s.bag_dossier_no = CodeDossier(r.indication_code)

\* a pack-scoped association fanned out to one pack of its preparation and not to
\* a pack of another dossier it overlaps in time
C22_Witness ==
    /\ pc = "fanned_out"
    /\ \E r \in sku_indication : \E s \in sku : \E o \in sku :
           /\ r.limitation_level = "PACK"
           /\ r.gtin = s.gtin
           /\ o.preparation_id = s.preparation_id
           /\ o.bag_dossier_no # CodeDossier(r.indication_code)
           /\ o.first_seen_extract <= s.first_seen_extract
           /\ s.last_seen_extract <= o.last_seen_extract
           /\ \A q \in sku_indication :
                  ~(q.gtin = o.gtin /\ q.indication_code = r.indication_code
                    /\ q.text_id = r.text_id)


\* the indication parts of the candidates of a lookup
IndParts(refs) == {IndPart(e.indication_code) : e \in refs}

\* C23: in the normalized-name and brand-canonicalized lookup layers, when no
\* candidate has the segment's own dossier, a code {segment's dossier}.{suffix}
\* is synthesized only if all candidates for that name share one indication-part
\* suffix; if the candidates disagree on the indication part, the layer assigns
\* nothing.
C23_CrossOnlyWhenSuffixUnique ==
    \A m \in indication_code_name :
        /\ m.match_source = "NORM_CROSS" =>
               Cardinality(IndParts(NormLookup(
                   _normalize_indication_name_lower(m.indication_name_de)))) = 1
        /\ m.match_source = "BRAND_CROSS" =>
               Cardinality(IndParts(BrandLookup(_normalize_brands(
                   _normalize_indication_name_lower(m.indication_name_de))))) = 1


\* the indication_code rows of the limitation of a segment
CodeRowsOf(s) == {r \in indication_code : r.limitation_id = s.limitation_id}

\* C24: ordinal/positional pairing assigns codes to segments only when the text
\* has N segments and N distinct non-fallback codes that all share one dossier;
\* it then pairs the i-th code in increasing indication-part order with the i-th
\* segment in document order, for every i.
C24_OrdinalPairsRealCodesOfOneDossier ==
    \A s \in limitation_indication_segment :
        s.matched_code_source = "ORDINAL_POSITION" =>
            /\ \A r \in CodeRowsOf(s) : r.code_source # "FALLBACK_XX"
            /\ \A a \in CodeRowsOf(s) : \A b \in CodeRowsOf(s) :
                   split_code(a.code_value)[1] = split_code(b.code_value)[1]
            /\ Cardinality({r.code_value : r \in CodeRowsOf(s)})
                   = Cardinality(SegmentsOf(s.limitation_id))
            /\ Cardinality({t \in SegmentsOf(s.limitation_id) :
                               t.segment_order < s.segment_order})
                   = Cardinality({r.code_value : r \in {x \in CodeRowsOf(s) :
                         CharsLess(CharsOf(IndPart(x.code_value)),
                                   CharsOf(IndPart(s.matched_code_value)))}})


\* {dossier}.xx / {dossier}.XX
IsFallbackCode(c) == IndPart(c) \in {<<"xx">>, <<"XX">>}

\* C25: single-segment deduction assigns a code only when the limitation has
\* exactly one segment and exactly one non-fallback code; it never assigns a
\* fallback sentinel code ({dossier}.xx / .XX) to a segment and never counts a
\* fallback code as the single code.
C25_SingleSegmentNeverFallback ==
    \A s \in limitation_indication_segment :
        s.matched_code_source = "SINGLE_SEGMENT_CODE" =>
            /\ ~IsFallbackCode(s.matched_code_value)
            /\ Cardinality(SegmentsOf(s.limitation_id)) = 1
            /\ Cardinality({r \in CodeRowsOf(s) : r.code_source # "FALLBACK_XX"}) = 1


\* the position in similarity_segment_mapping of the layer that writes a match type
LayerOf(match_type) ==
    CASE match_type = "EMBEDDED_IN_NAME" -> 1
      [] match_type \in {"NORMALIZED_MATCH", "NORMALIZED_CROSS"} -> 2
      [] match_type \in {"PIPE_PART_MATCH", "PIPE_PART_CROSS",
                         "KOMBI_NORMALIZED", "KOMBI_CROSS"} -> 3
      [] match_type \in {"BRAND_NORMALIZED", "BRAND_CROSS"} -> 4
      [] match_type = "FUZZY_MATCHED" -> 5
      [] match_type = "SINGLE_SEGMENT_CODE" -> 6
      [] match_type = "ORDINAL_POSITION" -> 7

\* C26: the cascade tries its layers in strictly decreasing confidence order:
\* whenever one layer runs before another, the confidence the earlier layer
\* records for a match is not lower than any confidence the later layer records.
C26_ConfidenceDecreasesWithLayer ==
    \A a \in match_log : \A b \in match_log :
        LayerOf(a.match_type) < LayerOf(b.match_type) => FracGe(a.score, b.score)


------------------------------------------------------------------------------
(* The similarity fallback layer of extract_limitations.py *)

\* the entries of the mapping the fuzzy layer compares the segment with
FuzzyCandidates(segment_id) ==
    map_by_dossier(UnmatchedRow(segment_id).bag_dossier_no)

\* seg_norm and map_norm are in the prefix relation
IsPrefixPair(segment_id, m) ==
    \/ StartsWith(CharsOf(NormLower(m.indication_name_de)),
                  CharsOf(NormLower(UnmatchedRow(segment_id).indication_name_de)))
    \/ StartsWith(CharsOf(NormLower(UnmatchedRow(segment_id).indication_name_de)),
                  CharsOf(NormLower(m.indication_name_de)))

\* m is a candidate the layer may accept for the segment with the logged score
ClearBest(segment_id, m, score) ==
    /\ FuzzyRatio(UnmatchedRow(segment_id), m) = score
    /\ FracGe(score, <<90, 100>>)
    /\ \A o \in FuzzyCandidates(segment_id) :
           FracGe(score, FuzzyRatio(UnmatchedRow(segment_id), o))
    /\ \/ \A o \in FuzzyCandidates(segment_id) \ {m} :
              FracGapOk(score, FuzzyRatio(UnmatchedRow(segment_id), o))
       \/ IsPrefixPair(segment_id, m) /\ FracGe(score, <<92, 100>>)

\* C27: every code the fuzzy layer assigns comes from an entry of the segment's
\* own dossier whose ratio is at least 0.90 and the best of the dossier, and
\* either every other entry of the dossier is at least 0.05 below it or the
\* entry is a prefix/suffix superstring of the segment name with ratio at least
\* 0.92; so two entries with different codes that tie for the best ratio give
\* no code unless the prefix condition holds.
C27_FuzzyAcceptsOnlyClearBest ==
    \A e \in match_log :
        (e.match_type = "FUZZY_MATCHED") =>
            \E m \in FuzzyCandidates(e.segment_id) :
                /\ m.code_value = e.matched_code
                /\ ClearBest(e.segment_id, m, e.score)

\* the fuzzy layer has passed a segment whose two best entries tie above 0.90
\* under different codes, and has accepted a segment with a clear best entry
C27_Witness ==
    /\ pc \in {"layer_5", "layer_6", "store_match_log", "done"}
    /\ \E u \in unmatched :
           /\ \E m, o \in map_by_dossier(u.bag_dossier_no) :
                  /\ m.code_value # o.code_value
                  /\ FuzzyRatio(u, m) = FuzzyRatio(u, o)
                  /\ FracGe(FuzzyRatio(u, m), <<90, 100>>)
                  /\ \A x \in map_by_dossier(u.bag_dossier_no) :
                         FracGe(FuzzyRatio(u, m), FuzzyRatio(u, x))
           /\ \A e \in match_log :
                  (e.segment_id = u.segment_id) => (e.match_type # "FUZZY_MATCHED")


\* C28: at the end of the resolution pipeline a segment whose name holds a
\* ddddd.dd token carries exactly that token as its matched code, whatever the
\* name-to-code map holds for the name.
C28_EmbeddedCodeIsFinal ==
    (pc = "done") =>
        \A s \in limitation_indication_segment :
            (Truthy(s.indication_name_de) /\ HasNumeric(s.indication_name_de)) =>
                s.matched_code_value = FirstNumeric(s.indication_name_de)


------------------------------------------------------------------------------
(* Observation intervals of build_sku_indication_db.py *)

\* C29: the interval [first_seen, last_seen] of a pack and of a code association
\* holds only snapshots in which the entity was observed: an entity that was
\* not in the snapshot ingested last (its last_seen is behind extract_id) never
\* gets a later last_seen, which would make the interval cover that snapshot.
C29_IntervalHoldsOnlyObservedSnapshots ==
    [][ /\ \A r \in sku : \A r2 \in sku' :
              ((r.gtin = r2.gtin) /\ (r.last_seen_extract < extract_id))
                  => (r2.last_seen_extract = r.last_seen_extract)
        /\ \A k \in prep_code_link : \A k2 \in prep_code_link' :
              ((k.preparation_id = k2.preparation_id)
                  /\ (k.text_id = k2.text_id)
                  /\ (k.indication_code = k2.indication_code)
                  /\ (k.last_seen_extract < extract_id))
                  => (k2.last_seen_extract = k.last_seen_extract) ]_vars


------------------------------------------------------------------------------
(* llm_segment_texts.py: run_pipeline and process_one_text *)

\* save_result run to its end: the old rows of the text are deleted, the llm_*
\* columns are set and the segments of the answer are inserted
save_result(tbl, text_id, n_segs) ==
    [tbl EXCEPT ![text_id] = [llm_processed_at |-> TRUE, llm_comment |-> "comment",
                              segments |-> n_segs]]

\* save_result left by a ValueError of int() in the INSERT of segment number
\* n_inserted + 1: the DELETE, the UPDATE and the earlier INSERTs have run
save_result_raises(tbl, text_id, n_inserted) ==
    [tbl EXCEPT ![text_id] = [llm_processed_at |-> TRUE, llm_comment |-> "comment",
                              segments |-> n_inserted]]

save_error(tbl, text_id) ==
    [tbl EXCEPT ![text_id].llm_processed_at = TRUE,
                ![text_id].llm_comment = "LLM_ERROR"]

Entered(trace, text_id, fn) ==
    [trace EXCEPT ![text_id].saves = Append(@, fn)]

\* the end of a failed attempt: stats["retries"] += 1, then the next attempt, or
\* save_error and stats["errors"] += 1 after the last one. tbl and trace are
\* the store and the trace the attempt leaves.
AfterFailure(t, tbl, trace) ==
    IF llm_task[t].attempt = MAX_RETRIES - 1
    THEN /\ llm_text' = save_error(tbl, t)
         /\ llm_trace' = Entered(trace, t, "save_error")
         /\ stats' = [stats EXCEPT !.retries = @ + 1, !.errors = @ + 1]
         /\ llm_task' = [llm_task EXCEPT ![t].pos = "done"]
    ELSE /\ llm_text' = tbl
         /\ llm_trace' = trace
         /\ stats' = [stats EXCEPT !.retries = @ + 1]
         /\ llm_task' = [llm_task EXCEPT ![t].pos = "loop", ![t].attempt = @ + 1]

\* async with semaphore: await client.messages.create(...)
ApiCall(t) ==
    /\ llm_pc = "gather"
    /\ llm_task[t].pos = "loop"
    /\ semaphore > 0
    /\ semaphore' = semaphore - 1
    /\ llm_task' = [llm_task EXCEPT ![t].pos = "api"]
    /\ llm_trace' = [llm_trace EXCEPT ![t].api_calls = @ + 1]
    /\ UNCHANGED <<llm_pc, stats, llm_text>>
    /\ UNCHANGED <<varsB, varsE, varsLog, varsMap, pc, op>>

\* the answer parses and validates, save_result runs to its end
ApiSuccess(t, n_segs) ==
    /\ llm_pc = "gather"
    /\ llm_task[t].pos = "api"
    /\ llm_text' = save_result(llm_text, t, n_segs)
    /\ llm_trace' = Entered(llm_trace, t, "save_result")
    /\ stats' = [stats EXCEPT !.processed = @ + 1]
    /\ llm_task' = [llm_task EXCEPT ![t].pos = "done"]
    /\ semaphore' = semaphore + 1
    /\ UNCHANGED llm_pc
    /\ UNCHANGED <<varsB, varsE, varsLog, varsMap, pc, op>>

\* anthropic.RateLimitError: the task sleeps RETRY_BASE_DELAY * 2 ** attempt
\* inside the semaphore
RateLimited(t) ==
    /\ llm_pc = "gather"
    /\ llm_task[t].pos = "api"
    /\ llm_task' = [llm_task EXCEPT ![t].pos = "sleep",
                                    ![t].wait = RETRY_BASE_DELAY * (2 ^ llm_task[t].attempt)]
    /\ UNCHANGED <<llm_pc, semaphore, stats, llm_text, llm_trace>>
    /\ UNCHANGED <<varsB, varsE, varsLog, varsMap, pc, op>>

\* anthropic.APIError: the task sleeps RETRY_BASE_DELAY inside the semaphore
ApiFailed(t) ==
    /\ llm_pc = "gather"
    /\ llm_task[t].pos = "api"
    /\ llm_task' = [llm_task EXCEPT ![t].pos = "sleep", ![t].wait = RETRY_BASE_DELAY]
    /\ UNCHANGED <<llm_pc, semaphore, stats, llm_text, llm_trace>>
    /\ UNCHANGED <<varsB, varsE, varsLog, varsMap, pc, op>>

\* the sleep is over
Wake(t) ==
    /\ llm_pc = "gather"
    /\ llm_task[t].pos = "sleep"
    /\ AfterFailure(t, llm_text, llm_trace)
    /\ semaphore' = semaphore + 1
    /\ UNCHANGED llm_pc
    /\ UNCHANGED <<varsB, varsE, varsLog, varsMap, pc, op>>

\* extract_json raises json.JSONDecodeError or validate_response raises ValueError
InvalidJson(t) ==
    /\ llm_pc = "gather"
    /\ llm_task[t].pos = "api"
    /\ AfterFailure(t, llm_text, llm_trace)
    /\ semaphore' = semaphore + 1
    /\ UNCHANGED llm_pc
    /\ UNCHANGED <<varsB, varsE, varsLog, varsMap, pc, op>>

\* the answer validates (validate_response tests the presence of "is_cashback",
\* not its type) and int(seg.get("is_cashback", False)) raises ValueError in
\* save_result, e.g. for "is_cashback": "oui"; save_result is called inside the
\* try, so the handler of (json.JSONDecodeError, ValueError) takes it
SaveResultValueError(t, n_inserted) ==
    /\ llm_pc = "gather"
    /\ llm_task[t].pos = "api"
    /\ AfterFailure(t, save_result_raises(llm_text, t, n_inserted),
                    Entered(llm_trace, t, "save_result"))
    /\ semaphore' = semaphore + 1
    /\ UNCHANGED llm_pc
    /\ UNCHANGED <<varsB, varsE, varsLog, varsMap, pc, op>>

\* the answer validates and int(None) raises TypeError in the UPDATE of
\* save_result ("is_multi_indication": null): no handler takes it, the task
\* ends with the exception and asyncio.gather raises it in run_pipeline
SaveResultTypeError(t) ==
    /\ llm_pc = "gather"
    /\ llm_task[t].pos = "api"
    /\ llm_text' = [llm_text EXCEPT ![t].segments = 0]
    /\ llm_trace' = Entered(llm_trace, t, "save_result")
    /\ llm_task' = [llm_task EXCEPT ![t].pos = "raised"]
    /\ semaphore' = semaphore + 1
    /\ llm_pc' = "failed"
    /\ UNCHANGED stats
    /\ UNCHANGED <<varsB, varsE, varsLog, varsMap, pc, op>>

\* await asyncio.gather(*tasks) returns
Gather ==
    /\ llm_pc = "gather"
    /\ \A t \in TextIds : llm_task[t].pos = "done"
    /\ llm_pc' = "finished"
    /\ UNCHANGED <<semaphore, stats, llm_task, llm_text, llm_trace>>
    /\ UNCHANGED <<varsB, varsE, varsLog, varsMap, pc, op>>

NextLLM ==
    \/ \E t \in TextIds : ApiCall(t)
    \/ \E t \in TextIds : \E n_segs \in 1..2 : ApiSuccess(t, n_segs)
    \/ \E t \in TextIds : RateLimited(t)
    \/ \E t \in TextIds : ApiFailed(t)
    \/ \E t \in TextIds : Wake(t)
    \/ \E t \in TextIds : InvalidJson(t)
    \/ \E t \in TextIds : \E n_inserted \in 0..1 : SaveResultValueError(t, n_inserted)
    \/ \E t \in TextIds : SaveResultTypeError(t)
    \/ Gather

SpecLLM == Init /\ [][NextLLM]_vars

\* the save functions entered for a text
SavesOf(t) == {llm_trace[t].saves[i] : i \in 1..Len(llm_trace[t].saves)}

\* C30: as long as no task ended with an unhandled exception, a text takes at
\* most MAX_RETRIES API calls, save_result and save_error are never both
\* entered for one text, and a finished task has entered one of them; when all
\* tasks have finished, processed + errors is the number of texts and every
\* text has llm_processed_at set.
C30_FinalizedExactlyOnce ==
    (\A t \in TextIds : llm_task[t].pos # "raised") =>
        /\ \A t \in TextIds :
              /\ llm_trace[t].api_calls <= MAX_RETRIES
              /\ Cardinality(SavesOf(t)) <= 1
              /\ (llm_task[t].pos = "done") => (SavesOf(t) # {})
        /\ (llm_pc = "finished") =>
              /\ stats.processed + stats.errors = NumTexts
              /\ \A t \in TextIds : llm_text[t].llm_processed_at

=============================================================================
